---- MODULE Spec2Model ----
(***************************************************************************)
(* Transfer workflow, signed QR confirmation and item life record of the   *)
(* SGIH inventory platform (apps/transfers, apps/inventory).               *)
(*                                                                         *)
(* Strings are sequences of one-character strings, so that formatting and  *)
(* parsing are computed, not assumed.  The clock counts whole token        *)
(* lifetimes: one unit of `now` is the 24 hours of expiration_hours.       *)
(***************************************************************************)
EXTENDS Integers, Sequences, FiniteSets, TLC

\* ------------------------------------------------------------------ bounds
MaxTime == 2
MaxTs == 2

\* --------------------------------------------------------------- constants
\* timedelta(hours=expiration_hours) with expiration_hours=24, in clock units
ExpirationTime == 1

\* ------------------------------------------------------------------ strings
Digits == <<"0", "1", "2", "3", "4", "5", "6", "7", "8", "9">>

RECURSIVE str_int(_)
\* str(n) / f"{n}" of a non-negative integer
str_int(n) ==
    IF n < 10 THEN <<Digits[n + 1]>>
    ELSE str_int(n \div 10) \o <<Digits[(n % 10) + 1]>>

DigitValue(c) == CHOOSE d \in 0..9 : Digits[d + 1] = c

IsDigit(c) == \E d \in 0..9 : Digits[d + 1] = c

RECURSIVE int_digits(_)
int_digits(s) ==
    IF Len(s) = 0 THEN 0
    ELSE 10 * int_digits(SubSeq(s, 1, Len(s) - 1)) + DigitValue(s[Len(s)])

\* int(timestamp): the value, or -1 where int() raises ValueError
int_str(s) ==
    IF Len(s) > 0 /\ \A i \in 1..Len(s) : IsDigit(s[i])
    THEN int_digits(s)
    ELSE -1

\* f"{transferencia_id}:{token}:{timestamp}"
DatosFirma(transferencia_id, token, timestamp) ==
    transferencia_id \o <<":">> \o token \o <<":">> \o timestamp

SECRET_KEY == "django-insecure-change-me-in-production"

\* hmac.new(key, data, sha256).hexdigest(): a digest is determined by key and
\* data, and distinct (key, data) give distinct digests
hmac_sha256(key, data) == [alg |-> "hmac-sha256", key |-> key, data |-> data]

\* the signature computed over (id, token, timestamp) with the server key
firmar(transferencia_id, token, timestamp) ==
    hmac_sha256(SECRET_KEY, DatosFirma(transferencia_id, token, timestamp))

\* a sig parameter that is absent from the request (None)
SinFirma == [alg |-> "none", key |-> "", data |-> <<>>]

validar_firma_url_sinExpiracion(token, signature, timestamp, transferencia_id, current_time) ==
    IF int_str(timestamp) = -1 THEN "VALIDATION_ERROR"
    ELSE IF signature = SinFirma THEN "VALIDATION_ERROR"
    ELSE IF signature # firmar(transferencia_id, token, timestamp)
         THEN "INVALID_SIGNATURE"
    ELSE "OK"

validar_firma_url_sinFirma(token, signature, timestamp, transferencia_id, current_time) ==
    IF int_str(timestamp) = -1 THEN "VALIDATION_ERROR"
    ELSE IF current_time > int_str(timestamp) THEN "TOKEN_EXPIRED"
    ELSE IF signature = SinFirma THEN "VALIDATION_ERROR"
    ELSE "OK"

\* QRService.validar_firma_url; the result is "OK" or the codigo_error
validar_firma_url(token, signature, timestamp, transferencia_id, current_time) ==
    IF int_str(timestamp) = -1 THEN "VALIDATION_ERROR"
    ELSE IF current_time > int_str(timestamp) THEN "TOKEN_EXPIRED"
    ELSE IF signature = SinFirma THEN "VALIDATION_ERROR"
    ELSE IF signature # firmar(transferencia_id, token, timestamp)
         THEN "INVALID_SIGNATURE"
    ELSE "OK"

\* ------------------------------------------------------------ organisation
\* bounds of the workflow model
MaxTransfers == 1
NumItems == 2
MaxReq == 2
MaxOps == 3

Hidrologicas == {"HA", "HB"}
Acueductos == {"A1", "B1"}
\* Acueducto.hidrologica
AcueductoHidrologica(a) == IF a = "B1" THEN "HB" ELSE "HA"

Users == {"opA", "opB", "rector"}
\* User.hidrologica ("None" for the Ente Rector administrator, User.clean)
UserHidrologica(u) ==
    CASE u = "opA" -> "HA"
      [] u = "opB" -> "HB"
      [] OTHER -> "None"
\* User.is_ente_rector
is_ente_rector(u) == u = "rector"

TransferIds == 1..MaxTransfers
ItemIds == 1..NumItems

\* EstadoTransferencia
SOLICITADA == "solicitada"
APROBADA == "aprobada"
EN_TRANSITO == "en_transito"
COMPLETADA == "completada"
RECHAZADA == "rechazada"
CANCELADA == "cancelada"
EstadoTransferencia == {SOLICITADA, APROBADA, EN_TRANSITO, COMPLETADA, RECHAZADA, CANCELADA}

\* EstadoItem
DISPONIBLE == "disponible"
ITEM_EN_TRANSITO == "en_transito"
ASIGNADO == "asignado"
MANTENIMIENTO == "mantenimiento"
DADO_BAJA == "dado_baja"
EstadoItem == {DISPONIBLE, ITEM_EN_TRANSITO, ASIGNADO, MANTENIMIENTO, DADO_BAJA}

SinFecha == -1
SinUsuario == "None"
SinToken == <<>>
SinUrl == [token |-> <<>>, sig |-> SinFirma, ts |-> <<>>, id |-> <<>>]
SinFirmaDigital == [usuario |-> SinUsuario, timestamp |-> SinFecha, accion |-> "None"]
SinUbicacion == [hidrologica |-> "None", acueducto |-> "None"]

\* str(transferencia.id)
IdStr(t) == <<"u">> \o str_int(t)
\* QRService.generar_token_seguro / tasks.generar_token_seguro: the n-th uuid4
\* drawn by the process, as 32 hex characters
generar_token_seguro(n) == <<"k">> \o str_int(n)

\* QRService.crear_url_firmada: ts is the expiry, now + expiration_hours
crear_url_firmada(transferencia_id, token, ahora) ==
    LET timestamp == str_int(ahora + ExpirationTime) IN
    [token |-> token, sig |-> firmar(transferencia_id, token, timestamp),
     ts |-> timestamp, id |-> transferencia_id]

\* tasks.crear_url_firmada: ts is the time of minting
tasks_crear_url_firmada(transferencia_id, token, ahora) ==
    LET timestamp == str_int(ahora) IN
    [token |-> token, sig |-> firmar(transferencia_id, token, timestamp),
     ts |-> timestamp, id |-> transferencia_id]

\* QRService._extraer_parametros_url on a stored URL (token, id and ts are
\* hex, uuid and decimal text, which the query string carries unchanged)
extraer_parametros_url(url) ==
    [token |-> url.token, signature |-> url.sig, timestamp |-> url.ts,
     transferencia_id |-> url.id]

\* Calls taken on their own.  Of one call of validar_firma_url: the triple that
\* was signed, the triple presented with that signature, the clock of the call
\* and its result.  Of the last call of solicitar_transferencia: its arguments
\* and its outcome.  Of one call of a transfer operation made while no other
\* request is running: its arguments, the database before it and its result.
VARIABLES firmado, presentado, reloj, veredicto, solicitud, llamada

VARIABLES
    ordenes,          \* the numero_orden column of the transfers of a month
    movimientos,      \* MovimientoInterno rows
    ficha,            \* the history of one item with its timestamps, and its reading
    contexto          \* the thread-local tenant context of each thread, and one wrapped call

varsRegistros == <<ordenes, movimientos, ficha, contexto>>

varsLlamadas == <<firmado, presentado, reloj, veredicto, solicitud, llamada,
                  ordenes, movimientos, ficha, contexto>>

\* ---------------------------------------------------------------- state
VARIABLES
    transferencias,   \* TransferenciaExterna rows, by id
    lineas,           \* ItemTransferencia rows: transfer id -> sequence of items
    items,            \* ItemInventario rows
    now,              \* timezone.now(), in token lifetimes
    reqs,             \* requests and task runs between their read and their write
    cola,             \* Celery queue: pending generar_orden_traspaso per transfer
    tokens_emitidos,  \* number of uuid4 tokens drawn so far
    ops               \* number of requests accepted so far

varsFlujo == <<transferencias, lineas, items, now, reqs, cola, tokens_emitidos, ops>>

FilaVacia ==
    [estado |-> "none", numero_orden |-> 0,
     hidrologica_origen |-> "None", acueducto_origen |-> "None",
     hidrologica_destino |-> "None", acueducto_destino |-> "None",
     solicitado_por |-> SinUsuario, aprobado_por |-> SinUsuario,
     observaciones |-> <<>>, pdf_generado |-> FALSE,
     qr_token |-> SinToken, url_firmada |-> SinUrl,
     fecha_aprobacion |-> SinFecha, fecha_inicio_transito |-> SinFecha,
     fecha_completada |-> SinFecha,
     firma_origen |-> SinFirmaDigital, firma_destino |-> SinFirmaDigital]

ItemVacio ==
    [estado |-> "none", hidrologica |-> "None", acueducto_actual |-> "None",
     historial_movimientos |-> <<>>]

Idle ==
    [op |-> "idle", t |-> 0, usuario |-> SinUsuario, snap |-> FilaVacia,
     item |-> 0, isnap |-> ItemVacio, arg |-> "", via |-> "", fase |-> 0]

Existentes == DOMAIN transferencias

\* ItemInventario.puede_transferirse
puede_transferirse(item) == item.estado \in {DISPONIBLE, ASIGNADO}
puede_completarse_siempre(fila) == TRUE
\* TransferenciaExterna.puede_iniciarse / puede_completarse
puede_iniciarse(fila) == fila.estado = APROBADA
puede_completarse(fila) == fila.estado = EN_TRANSITO

\* ------------------------------------------------------------ life record
\* ItemHistoryService.registrar_evento: the event is appended to the history
\* held by the item object and that list is saved; 'estado_anterior' is read
\* from the object at that moment
Evento(item, tipo, usuario, origen, destino, dato1, dato2, orden) ==
    [tipo |-> tipo, usuario |-> usuario, estado_anterior |-> item.estado,
     ubicacion_origen |-> origen, ubicacion_destino |-> destino,
     dato1 |-> dato1, dato2 |-> dato2, numero_orden |-> orden]

registrar_evento(item, tipo, usuario, origen, destino, dato1, dato2, orden) ==
    [item EXCEPT !.historial_movimientos =
        Append(@, Evento(item, tipo, usuario, origen, destino, dato1, dato2, orden))]

\* ItemHistoryService.registrar_cambio_estado
registrar_cambio_estado(item, estado_anterior, nuevo_estado, usuario) ==
    registrar_evento(item, "cambio_estado", usuario, SinUbicacion, SinUbicacion,
                     estado_anterior, nuevo_estado, 0)

cambiar_estado_sinEvento(item, nuevo_estado, usuario) ==
    [item EXCEPT !.estado = nuevo_estado]

\* ItemInventario.cambiar_estado: set the state, save it, record the event
cambiar_estado(item, nuevo_estado, usuario) ==
    registrar_cambio_estado([item EXCEPT !.estado = nuevo_estado],
                            item.estado, nuevo_estado, usuario)

registrar_transferencia_externa_sinOrden(item, fila, usuario) ==
    registrar_evento(item, "transferencia_externa", usuario,
        [hidrologica |-> fila.hidrologica_origen, acueducto |-> fila.acueducto_origen],
        [hidrologica |-> fila.hidrologica_destino, acueducto |-> fila.acueducto_destino],
        "externo", "", 0)

\* ItemHistoryService.registrar_transferencia_externa
registrar_transferencia_externa(item, fila, usuario) ==
    registrar_evento(item, "transferencia_externa", usuario,
        [hidrologica |-> fila.hidrologica_origen, acueducto |-> fila.acueducto_origen],
        [hidrologica |-> fila.hidrologica_destino, acueducto |-> fila.acueducto_destino],
        "externo", "", fila.numero_orden)

\* ItemHistoryService.registrar_mantenimiento
registrar_mantenimiento(item, tipo_mantenimiento, usuario) ==
    registrar_evento(item, "mantenimiento", usuario, SinUbicacion, SinUbicacion,
                     tipo_mantenimiento, "", 0)

\* ------------------------------------------------------- transfer methods
\* the months the clock passes through, and the creations of a run
Fechas == <<[year |-> 2026, month |-> 9], [year |-> 2026, month |-> 10]>>
MaxCreadas == 5

\* the width of the suffix: "{nuevo_num:04d}" and numero_orden[-4:]
AnchoSufijo == 4
MaxSufijo == 9999

\* f"{n:0{w}d}" on the digits of n
RECURSIVE zfill(_, _)
zfill(s, w) == IF Len(s) >= w THEN s ELSE zfill(<<"0">> \o s, w)

\* f"ORD{fecha.year}{fecha.month:02d}"
Prefijo(fecha) ==
    <<"O", "R", "D">> \o str_int(fecha.year) \o zfill(str_int(fecha.month), 2)

\* f"{prefijo}{nuevo_num:04d}"
NumeroOrden(prefijo, nuevo_num) == prefijo \o zfill(str_int(nuevo_num), AnchoSufijo)

\* numero_orden__startswith=prefijo
startswith(s, p) == Len(s) >= Len(p) /\ SubSeq(s, 1, Len(p)) = p

\* the order of the column on two strings that differ in digits only
RECURSIVE str_le(_, _)
str_le(a, b) ==
    IF a = <<>> THEN TRUE
    ELSE IF b = <<>> THEN FALSE
    ELSE IF Head(a) = Head(b) THEN str_le(Tail(a), Tail(b))
    ELSE DigitValue(Head(a)) < DigitValue(Head(b))

\* .order_by('-numero_orden').first(): the greatest string, or none
Primero(cadenas) ==
    IF cadenas = {} THEN <<>>
    ELSE CHOOSE s \in cadenas : \A x \in cadenas : str_le(x, s)

\* numero_orden[-4:]
UltimosCuatro(s) ==
    IF Len(s) <= AnchoSufijo THEN s ELSE SubSeq(s, Len(s) - AnchoSufijo + 1, Len(s))

\* TransferenciaExterna.generar_numero_orden, on the rows of the column that
\* start with the prefix: the last four characters of the greatest string,
\* as a number, plus one (1 when there is no row or int() fails)
generar_numero_orden(cadenas, prefijo) ==
    LET ultimo == Primero(cadenas)
        ultimo_num == int_str(UltimosCuatro(ultimo))
        nuevo_num == IF ultimo = <<>> \/ ultimo_num = -1 THEN 1 ELSE ultimo_num + 1
    IN NumeroOrden(prefijo, nuevo_num)

\* the workflow keeps the number of an order of the first month for its string
NumeroDeFlujo(filas) ==
    LET prefijo == Prefijo(Fechas[1])
        cadenas == {NumeroOrden(prefijo, filas[t].numero_orden) : t \in DOMAIN filas}
        nuevo == generar_numero_orden(cadenas, prefijo)
    IN int_str(SubSeq(nuevo, Len(prefijo) + 1, Len(nuevo)))

\* TransferenciaExterna.aprobar on the loaded object
aprobar(fila, usuario_rector, ahora) ==
    [fila EXCEPT !.estado = APROBADA, !.aprobado_por = usuario_rector,
                 !.fecha_aprobacion = ahora]

rechazar_sinMotivo(fila, usuario_rector, motivo) ==
    [fila EXCEPT !.estado = RECHAZADA, !.aprobado_por = usuario_rector]

\* TransferenciaExterna.rechazar on the loaded object
rechazar(fila, usuario_rector, motivo) ==
    [fila EXCEPT !.estado = RECHAZADA, !.aprobado_por = usuario_rector,
                 !.observaciones = Append(@, [nota |-> "Rechazada", texto |-> motivo])]

iniciar_transito_consumeToken(fila, usuario, ahora) ==
    [fila EXCEPT !.estado = EN_TRANSITO, !.fecha_inicio_transito = ahora,
                 !.firma_origen = [usuario |-> usuario, timestamp |-> ahora,
                                   accion |-> "confirmacion_salida"],
                 !.qr_token = SinToken]

\* TransferenciaExterna.iniciar_transito on the loaded object
iniciar_transito(fila, usuario, ahora) ==
    [fila EXCEPT !.estado = EN_TRANSITO, !.fecha_inicio_transito = ahora,
                 !.firma_origen = [usuario |-> usuario, timestamp |-> ahora,
                                   accion |-> "confirmacion_salida"]]

\* TransferenciaExterna.completar on the loaded object
completar(fila, usuario, ahora) ==
    [fila EXCEPT !.estado = COMPLETADA, !.fecha_completada = ahora,
                 !.firma_destino = [usuario |-> usuario, timestamp |-> ahora,
                                    accion |-> "confirmacion_recepcion"]]

\* the set of items of a transfer's lines
ItemsDe(t) == {lineas[t][k] : k \in 1..Len(lineas[t])}

\* -------------------------------------------------------------- requests
SlotLibre == CHOOSE s \in 1..MaxReq : reqs[s] = Idle /\ \A r \in 1..(s - 1) : reqs[r] # Idle
HaySlot == \E s \in 1..MaxReq : reqs[s] = Idle

Req(op, t, usuario, snap, via, arg) ==
    [Idle EXCEPT !.op = op, !.t = t, !.usuario = usuario, !.snap = snap,
                 !.via = via, !.arg = arg, !.fase = 1]

InitFlujo ==
    /\ transferencias = <<>>
    /\ lineas = <<>>
    /\ items = [i \in ItemIds |->
                  [estado |-> IF i = 2 THEN ASIGNADO ELSE DISPONIBLE,
                   hidrologica |-> IF i = 3 THEN "HB" ELSE "HA",
                   acueducto_actual |-> IF i = 3 THEN "B1" ELSE "A1",
                   historial_movimientos |-> <<>>]]
    /\ now = 0
    /\ reqs = [s \in 1..MaxReq |-> Idle]
    /\ cola = [t \in TransferIds |-> 0]
    /\ tokens_emitidos = 0
    /\ ops = 0

\* ------------------------------------------------------ request a transfer
\* sequences of requested item ids (items_solicitados), up to two lines
LineSeqs ==
    {<<i>> : i \in ItemIds} \cup {<<i, j>> : i \in ItemIds, j \in ItemIds}

\* TransferenciaExterna.clean, run by save() on create
clean(fila) ==
    /\ fila.hidrologica_origen # fila.hidrologica_destino
    /\ AcueductoHidrologica(fila.acueducto_origen) = fila.hidrologica_origen
    /\ AcueductoHidrologica(fila.acueducto_destino) = fila.hidrologica_destino

NuevaTransferencia_aprobada(filas, ho, ao, hd, ad, usuario) ==
    [FilaVacia EXCEPT !.estado = APROBADA,
                      !.numero_orden = NumeroDeFlujo(filas),
                      !.hidrologica_origen = ho, !.acueducto_origen = ao,
                      !.hidrologica_destino = hd, !.acueducto_destino = ad,
                      !.solicitado_por = usuario]

\* TransferenciaExterna.objects.create(...): estado takes its default
NuevaTransferencia(filas, ho, ao, hd, ad, usuario) ==
    [FilaVacia EXCEPT !.estado = SOLICITADA,
                      !.numero_orden = NumeroDeFlujo(filas),
                      !.hidrologica_origen = ho, !.acueducto_origen = ao,
                      !.hidrologica_destino = hd, !.acueducto_destino = ad,
                      !.solicitado_por = usuario]

RECURSIVE AgregarItems_soloPrimera(_, _, _, _)
AgregarItems_soloPrimera(its, ls, ho, acc) ==
    IF ls = <<>> THEN [ok |-> TRUE, lineas |-> acc]
    ELSE IF acc = <<>> /\ its[Head(ls)].hidrologica # ho THEN [ok |-> FALSE, lineas |-> <<>>]
    ELSE IF acc = <<>> /\ ~puede_transferirse(its[Head(ls)]) THEN [ok |-> FALSE, lineas |-> <<>>]
    ELSE IF \E k \in 1..Len(acc) : acc[k] = Head(ls) THEN [ok |-> FALSE, lineas |-> <<>>]
    ELSE AgregarItems_soloPrimera(its, Tail(ls), ho, Append(acc, Head(ls)))

RECURSIVE AgregarItems(_, _, _, _)
\* the loop over items_solicitados: the first line that fails raises, which
\* rolls the whole request back; (transferencia, item) is unique_together
AgregarItems(its, ls, ho, acc) ==
    IF ls = <<>> THEN [ok |-> TRUE, lineas |-> acc]
    ELSE IF its[Head(ls)].hidrologica # ho THEN [ok |-> FALSE, lineas |-> <<>>]
    ELSE IF ~puede_transferirse(its[Head(ls)]) THEN [ok |-> FALSE, lineas |-> <<>>]
    ELSE IF \E k \in 1..Len(acc) : acc[k] = Head(ls) THEN [ok |-> FALSE, lineas |-> <<>>]
    ELSE AgregarItems(its, Tail(ls), ho, Append(acc, Head(ls)))

\* TransferService.solicitar_transferencia on the rows it reads: the outcome
\* and the rows to store; a raise inside transaction.atomic stores nothing
solicitar_transferencia(filas, lins, its, usuario, ho, ao, hd, ad, ls) ==
    LET fila == NuevaTransferencia(filas, ho, ao, hd, ad, usuario)
        res == AgregarItems(its, ls, ho, <<>>)
    IN IF ho = hd THEN [ok |-> FALSE, transferencias |-> filas, lineas |-> lins]
       ELSE IF UserHidrologica(usuario) # ho
       THEN [ok |-> FALSE, transferencias |-> filas, lineas |-> lins]
       ELSE IF ~clean(fila) THEN [ok |-> FALSE, transferencias |-> filas, lineas |-> lins]
       ELSE IF ~res.ok THEN [ok |-> FALSE, transferencias |-> filas, lineas |-> lins]
       ELSE [ok |-> TRUE, transferencias |-> Append(filas, fila),
             lineas |-> Append(lins, res.lineas)]

\* a request arrives while the workflow runs
SolicitarTransferencia ==
    /\ Len(transferencias) < MaxTransfers
    /\ \E usuario \in Users, ho \in Hidrologicas, hd \in Hidrologicas,
          ao \in Acueductos, ad \in Acueductos, ls \in LineSeqs :
         LET r == solicitar_transferencia(transferencias, lineas, items,
                                          usuario, ho, ao, hd, ad, ls)
         IN /\ transferencias' = r.transferencias
            /\ lineas' = r.lineas
    /\ UNCHANGED <<items, now, reqs, cola, tokens_emitidos, ops>>
    /\ UNCHANGED varsLlamadas

SinSolicitud ==
    [usuario |-> SinUsuario, ho |-> "None", ao |-> "None", hd |-> "None",
     ad |-> "None", items |-> <<>>, resultado |-> "none"]

\* one request whose arguments and outcome are kept for inspection
SolicitarRegistrada ==
    /\ solicitud = SinSolicitud
    /\ Len(transferencias) < MaxTransfers
    /\ \E usuario \in Users, ho \in Hidrologicas, hd \in Hidrologicas,
          ao \in Acueductos, ad \in Acueductos, ls \in LineSeqs :
         LET r == solicitar_transferencia(transferencias, lineas, items,
                                          usuario, ho, ao, hd, ad, ls)
         IN /\ transferencias' = r.transferencias
            /\ lineas' = r.lineas
            /\ solicitud' = [usuario |-> usuario, ho |-> ho, ao |-> ao, hd |-> hd,
                             ad |-> ad, items |-> ls,
                             resultado |-> IF r.ok THEN "creada" ELSE "error"]
    /\ UNCHANGED <<items, now, reqs, cola, tokens_emitidos, ops>>
    /\ UNCHANGED <<firmado, presentado, reloj, veredicto, llamada>>
    /\ UNCHANGED varsRegistros

\* ------------------------------------------------------ approve and reject
\* TransferService.aprobar_transferencia up to the state check: the row is
\* loaded and checked, nothing is locked
AprobarLeer ==
    /\ HaySlot
    /\ ops < MaxOps
    /\ \E usuario_rector \in Users, t \in Existentes, observaciones \in {"", "obs"} :
         IF is_ente_rector(usuario_rector) /\ transferencias[t].estado = SOLICITADA
         THEN reqs' = [reqs EXCEPT ![SlotLibre] =
                         Req("aprobar", t, usuario_rector, transferencias[t], "", observaciones)]
         ELSE UNCHANGED reqs
    /\ ops' = IF reqs' # reqs THEN ops + 1 ELSE ops
    /\ UNCHANGED <<transferencias, lineas, items, now, cola, tokens_emitidos>>
    /\ UNCHANGED varsLlamadas

\* one line item of an approved transfer: item.cambiar_estado(EN_TRANSITO)
AprobarItem(item, usuario_rector) == cambiar_estado(item, ITEM_EN_TRANSITO, usuario_rector)

\* the rest of aprobar_transferencia: the loaded object is changed and saved
\* whole, each line item is set in transit, the order document task is queued
AprobarCommit(s) ==
    LET r == reqs[s]
        fila1 == aprobar(r.snap, r.usuario, now)
        fila2 == IF r.arg # ""
                 THEN [fila1 EXCEPT !.observaciones =
                         Append(@, [nota |-> "Aprobacion", texto |-> r.arg])]
                 ELSE fila1
    IN /\ r.op = "aprobar"
       /\ transferencias' = [transferencias EXCEPT ![r.t] = fila2]
       /\ items' = [i \in ItemIds |->
                      IF i \in ItemsDe(r.t) THEN AprobarItem(items[i], r.usuario)
                      ELSE items[i]]
       /\ cola' = [cola EXCEPT ![r.t] = @ + 1]
       /\ reqs' = [reqs EXCEPT ![s] = Idle]
       /\ UNCHANGED <<lineas, now, tokens_emitidos, ops>>
       /\ UNCHANGED varsLlamadas

\* TransferService.rechazar_transferencia up to the state check of rechazar
RechazarLeer ==
    /\ HaySlot
    /\ ops < MaxOps
    /\ \E usuario_rector \in Users, t \in Existentes, motivo \in {"", "motivo"} :
         IF is_ente_rector(usuario_rector) /\ transferencias[t].estado = SOLICITADA
         THEN reqs' = [reqs EXCEPT ![SlotLibre] =
                         Req("rechazar", t, usuario_rector, transferencias[t], "", motivo)]
         ELSE UNCHANGED reqs
    /\ ops' = IF reqs' # reqs THEN ops + 1 ELSE ops
    /\ UNCHANGED <<transferencias, lineas, items, now, cola, tokens_emitidos>>
    /\ UNCHANGED varsLlamadas

\* TransferenciaExterna.rechazar: the loaded object is changed and saved whole
RechazarCommit(s) ==
    LET r == reqs[s] IN
    /\ r.op = "rechazar"
    /\ transferencias' = [transferencias EXCEPT ![r.t] = rechazar(r.snap, r.usuario, r.arg)]
    /\ reqs' = [reqs EXCEPT ![s] = Idle]
    /\ UNCHANGED <<lineas, items, now, cola, tokens_emitidos, ops>>
    /\ UNCHANGED varsLlamadas

\* ------------------------------------------------- departure and receipt
\* tokens a caller may present: every token drawn so far, and one never issued
TokensPresentables == {generar_token_seguro(n) : n \in 0..tokens_emitidos}

\* TransferenciaExterna.objects.get(qr_token=token): the transfer, or 0
BuscarPorToken(token) ==
    IF \E t \in Existentes : transferencias[t].qr_token = token
    THEN CHOOSE t \in Existentes : transferencias[t].qr_token = token
    ELSE 0

\* QRService.validar_qr_token(token) as confirmar_accion_qr calls it, with no
\* signature parameters: the signature and expiry checked are the stored ones
validar_qr_token(token, ahora) ==
    LET t == BuscarPorToken(token) IN
    IF t = 0 THEN "TOKEN_NOT_FOUND"
    ELSE IF transferencias[t].url_firmada # SinUrl
    THEN LET url_params == extraer_parametros_url(transferencias[t].url_firmada)
         IN validar_firma_url(token, url_params.signature, url_params.timestamp,
                              IdStr(t), ahora)
    ELSE "OK"

\* the unit check and the state check shared by both entries of a confirmation
PuedeConfirmar(fila, accion, usuario) ==
    IF accion = "iniciar_transito"
    THEN UserHidrologica(usuario) = fila.hidrologica_origen /\ puede_iniciarse(fila)
    ELSE UserHidrologica(usuario) = fila.hidrologica_destino /\ puede_completarse(fila)

Acciones == {"iniciar_transito", "completar"}

\* QRService.confirmar_accion_qr up to the load of the row by the service
ConfirmarQRLeer ==
    /\ HaySlot
    /\ ops < MaxOps
    /\ \E token \in TokensPresentables, accion \in Acciones, usuario \in Users :
         LET t == BuscarPorToken(token) IN
         IF validar_qr_token(token, now) = "OK"
            /\ PuedeConfirmar(transferencias[t], accion, usuario)
         THEN reqs' = [reqs EXCEPT ![SlotLibre] =
                         Req(accion, t, usuario, transferencias[t], "qr", "")]
         ELSE UNCHANGED reqs
    /\ ops' = IF reqs' # reqs THEN ops + 1 ELSE ops
    /\ UNCHANGED <<transferencias, lineas, items, now, cola, tokens_emitidos>>
    /\ UNCHANGED varsLlamadas

\* TransferService.iniciar_transito / completar_transferencia called with the
\* transfer id (TransferenciaExternaViewSet.iniciar_transito / completar), up
\* to the state check: no token takes part
ConfirmarServicioLeer ==
    /\ HaySlot
    /\ ops < MaxOps
    /\ \E t \in Existentes, accion \in Acciones, usuario \in Users :
         IF PuedeConfirmar(transferencias[t], accion, usuario)
         THEN reqs' = [reqs EXCEPT ![SlotLibre] =
                         Req(accion, t, usuario, transferencias[t], "servicio", "")]
         ELSE UNCHANGED reqs
    /\ ops' = IF reqs' # reqs THEN ops + 1 ELSE ops
    /\ UNCHANGED <<transferencias, lineas, items, now, cola, tokens_emitidos>>
    /\ UNCHANGED varsLlamadas

\* TransferenciaExterna.iniciar_transito: the loaded object is saved whole
IniciarTransitoCommit(s) ==
    LET r == reqs[s] IN
    /\ r.op = "iniciar_transito"
    /\ transferencias' = [transferencias EXCEPT ![r.t] = iniciar_transito(r.snap, r.usuario, now)]
    /\ reqs' = [reqs EXCEPT ![s] = Idle]
    /\ UNCHANGED <<lineas, items, now, cola, tokens_emitidos, ops>>
    /\ UNCHANGED varsLlamadas

\* one line item of a completed transfer: new unit and sub-location saved with
\* the whole item, then cambiar_estado(DISPONIBLE), then the transfer event
CompletarItem(item, fila, usuario) ==
    registrar_transferencia_externa(
        cambiar_estado([item EXCEPT !.hidrologica = fila.hidrologica_destino,
                                    !.acueducto_actual = fila.acueducto_destino],
                       DISPONIBLE, usuario),
        fila, usuario)

\* the rest of completar_transferencia
CompletarCommit(s) ==
    LET r == reqs[s]
        fila == completar(r.snap, r.usuario, now)
    IN /\ r.op = "completar"
       /\ transferencias' = [transferencias EXCEPT ![r.t] = fila]
       /\ items' = [i \in ItemIds |->
                      IF i \in ItemsDe(r.t) THEN CompletarItem(items[i], fila, r.usuario)
                      ELSE items[i]]
       /\ reqs' = [reqs EXCEPT ![s] = Idle]
       /\ UNCHANGED <<lineas, now, cola, tokens_emitidos, ops>>
       /\ UNCHANGED varsLlamadas

\* ------------------------------------------------ QR and order document
\* QRService.generar_qr_para_transferencia: the load
GenerarQRLeer ==
    /\ HaySlot
    /\ ops < MaxOps
    /\ \E t \in Existentes :
         reqs' = [reqs EXCEPT ![SlotLibre] =
                    Req("generar_qr", t, SinUsuario, transferencias[t], "", "")]
    /\ ops' = IF reqs' # reqs THEN ops + 1 ELSE ops
    /\ UNCHANGED <<transferencias, lineas, items, now, cola, tokens_emitidos>>
    /\ UNCHANGED varsLlamadas

\* generar_qr_para_transferencia: token kept or drawn, new URL, whole row saved
GenerarQRGuardar(s) ==
    LET r == reqs[s]
        nuevo == r.snap.qr_token = SinToken
        token == IF nuevo THEN generar_token_seguro(tokens_emitidos + 1) ELSE r.snap.qr_token
    IN /\ r.op = "generar_qr"
       /\ transferencias' = [transferencias EXCEPT ![r.t] =
             [r.snap EXCEPT !.qr_token = token,
                            !.url_firmada = crear_url_firmada(IdStr(r.t), token, now)]]
       /\ tokens_emitidos' = IF nuevo THEN tokens_emitidos + 1 ELSE tokens_emitidos
       /\ reqs' = [reqs EXCEPT ![s] = Idle]
       /\ UNCHANGED <<lineas, items, now, cola, ops>>
       /\ UNCHANGED varsLlamadas

\* tasks.generar_orden_traspaso taken from the queue: the load
TaskLeer ==
    /\ HaySlot
    /\ \E t \in Existentes :
         /\ cola[t] > 0
         /\ cola' = [cola EXCEPT ![t] = @ - 1]
         /\ reqs' = [reqs EXCEPT ![SlotLibre] =
                       Req("generar_orden_traspaso", t, SinUsuario, transferencias[t], "", "")]
    /\ UNCHANGED <<transferencias, lineas, items, now, tokens_emitidos, ops>>
    /\ UNCHANGED varsLlamadas

\* generar_orden_traspaso: new token and URL on the loaded object, first save
TaskGuardarToken(s) ==
    LET r == reqs[s]
        token == generar_token_seguro(tokens_emitidos + 1)
        fila == [r.snap EXCEPT !.qr_token = token,
                               !.url_firmada = tasks_crear_url_firmada(IdStr(r.t), token, now)]
    IN /\ r.op = "generar_orden_traspaso"
       /\ r.fase = 1
       /\ transferencias' = [transferencias EXCEPT ![r.t] = fila]
       /\ tokens_emitidos' = tokens_emitidos + 1
       /\ reqs' = [reqs EXCEPT ![s] = [r EXCEPT !.snap = fila, !.fase = 2]]
       /\ UNCHANGED <<lineas, items, now, cola, ops>>
       /\ UNCHANGED varsLlamadas

\* generar_orden_traspaso: pdf_generado on the same object, second save
TaskGuardarPdf(s) ==
    LET r == reqs[s] IN
    /\ r.op = "generar_orden_traspaso"
    /\ r.fase = 2
    /\ transferencias' = [transferencias EXCEPT ![r.t] = [r.snap EXCEPT !.pdf_generado = TRUE]]
    /\ reqs' = [reqs EXCEPT ![s] = Idle]
    /\ UNCHANGED <<lineas, items, now, cola, tokens_emitidos, ops>>
    /\ UNCHANGED varsLlamadas

\* --------------------------------------------------------- item requests
\* InventoryPermissions on a POST to an item: an operator of the item's unit
PuedeGestionarItem(usuario, item) ==
    ~is_ente_rector(usuario) /\ UserHidrologica(usuario) = item.hidrologica

ReqItem(op, i, usuario, isnap, arg) ==
    [Idle EXCEPT !.op = op, !.item = i, !.usuario = usuario, !.isnap = isnap,
                 !.arg = arg, !.fase = 1]

\* the states asked for by the callers of cambiar_estado
EstadosPedidos == {DISPONIBLE, MANTENIMIENTO, DADO_BAJA}

\* ItemInventarioViewSet.cambiar_estado: get_object and the checks of the view
CambiarEstadoLeer ==
    /\ HaySlot
    /\ ops < MaxOps
    /\ \E i \in ItemIds, usuario \in Users, nuevo_estado \in EstadosPedidos :
         IF PuedeGestionarItem(usuario, items[i]) /\ items[i].estado # nuevo_estado
         THEN /\ reqs' = [reqs EXCEPT ![SlotLibre] =
                            ReqItem("cambiar_estado", i, usuario, items[i], nuevo_estado)]
              /\ ops' = ops + 1
         ELSE UNCHANGED <<reqs, ops>>
    /\ UNCHANGED <<transferencias, lineas, items, now, cola, tokens_emitidos>>
    /\ UNCHANGED varsLlamadas

\* InventoryService.cambiar_estado_item on the loaded object: estado is saved
\* alone, then the history list of the object, with the new event, is saved
cambiar_estado_item(fila_item, objeto, nuevo_estado, usuario) ==
    LET nuevo == registrar_cambio_estado([objeto EXCEPT !.estado = nuevo_estado],
                                         objeto.estado, nuevo_estado, usuario)
    IN [fila_item EXCEPT !.estado = nuevo.estado,
                         !.historial_movimientos = nuevo.historial_movimientos]

CambiarEstadoCommit(s) ==
    LET r == reqs[s] IN
    /\ r.op = "cambiar_estado"
    /\ items' = [items EXCEPT ![r.item] = cambiar_estado_item(@, r.isnap, r.arg, r.usuario)]
    /\ reqs' = [reqs EXCEPT ![s] = Idle]
    /\ UNCHANGED <<transferencias, lineas, now, cola, tokens_emitidos, ops>>
    /\ UNCHANGED varsLlamadas

\* ItemInventarioViewSet.registrar_mantenimiento: get_object
MantenimientoLeer ==
    /\ HaySlot
    /\ ops < MaxOps
    /\ \E i \in ItemIds, usuario \in Users :
         IF PuedeGestionarItem(usuario, items[i])
         THEN /\ reqs' = [reqs EXCEPT ![SlotLibre] =
                            ReqItem("mantenimiento", i, usuario, items[i], "preventivo")]
              /\ ops' = ops + 1
         ELSE UNCHANGED <<reqs, ops>>
    /\ UNCHANGED <<transferencias, lineas, items, now, cola, tokens_emitidos>>
    /\ UNCHANGED varsLlamadas

\* ItemHistoryService.registrar_mantenimiento on the loaded object: only the
\* history list is saved
MantenimientoGuardar(s) ==
    LET r == reqs[s] IN
    /\ r.op = "mantenimiento"
    /\ items' = [items EXCEPT ![r.item] =
          [@ EXCEPT !.historial_movimientos =
              registrar_mantenimiento(r.isnap, r.arg, r.usuario).historial_movimientos]]
    /\ reqs' = [reqs EXCEPT ![s] = Idle]
    /\ UNCHANGED <<transferencias, lineas, now, cola, tokens_emitidos, ops>>
    /\ UNCHANGED varsLlamadas

\* timezone.now() advances
Tick ==
    /\ now < MaxTime
    /\ now' = now + 1
    /\ UNCHANGED <<transferencias, lineas, items, reqs, cola, tokens_emitidos, ops>>
    /\ UNCHANGED varsLlamadas

\* ------------------------------------------------------------ whole calls
\* what can go wrong while one notification is sent: nothing, the publication
\* in real time, or the making of the notification itself
FallasNotificacion == {"ninguna", "tiempo_real", "registro"}

\* NotificationService.enviar_notificacion: only the publication and the
\* counter are inside a try; the lookups, the template and the creation of the
\* row raise to the caller
enviar_notificacion(falla) ==
    IF falla = "registro" THEN "raise"
    ELSE IF falla = "tiempo_real" THEN "sin_publicar"
    ELSE "enviada"

\* enviar_notificacion_multiple (under enviar_a_hidrologica and
\* enviar_a_ente_rector): an exception for a user is printed and skipped
enviar_notificacion_multiple(falla) ==
    IF enviar_notificacion(falla) = "raise" THEN "omitida"
    ELSE enviar_notificacion(falla)

\* what a call returns or raises, and the database it leaves
Salida(codigo, filas, its, colas) ==
    [codigo |-> codigo, transferencias |-> filas, items |-> its, cola |-> colas]

SinCambios(codigo) == Salida(codigo, transferencias, items, cola)

\* TransferService.aprobar_transferencia, whole.  Its own errors are raised as
\* ValidationError(message) of apps.core.exceptions, whose constructor takes
\* an error code and a message: the raise itself ends in a TypeError.  The
\* task is queued before the notification, outside the transaction.
aprobar_transferencia(t, usuario_rector, observaciones, falla) ==
    LET fila1 == aprobar(transferencias[t], usuario_rector, now)
        fila2 == IF observaciones # ""
                 THEN [fila1 EXCEPT !.observaciones =
                         Append(@, [nota |-> "Aprobacion", texto |-> observaciones])]
                 ELSE fila1
        encolada == [cola EXCEPT ![t] = @ + 1]
    IN IF ~is_ente_rector(usuario_rector) THEN SinCambios("TypeError")
       ELSE IF transferencias[t].estado # SOLICITADA THEN SinCambios("TypeError")
       ELSE IF enviar_notificacion(falla) = "raise"
       THEN Salida("NotificationError", transferencias, items, encolada)
       ELSE Salida("OK", [transferencias EXCEPT ![t] = fila2],
                   [i \in ItemIds |-> IF i \in ItemsDe(t)
                                      THEN AprobarItem(items[i], usuario_rector)
                                      ELSE items[i]],
                   encolada)

rechazar_transferencia_sinRol(t, usuario_rector, motivo_rechazo, falla) ==
    IF transferencias[t].estado # SOLICITADA THEN SinCambios("ValidationError")
    ELSE IF enviar_notificacion(falla) = "raise" THEN SinCambios("NotificationError")
    ELSE Salida("OK",
                [transferencias EXCEPT ![t] =
                    rechazar(transferencias[t], usuario_rector, motivo_rechazo)],
                items, cola)

\* TransferService.rechazar_transferencia, whole: the state is checked by
\* TransferenciaExterna.rechazar, which raises Django's ValidationError
rechazar_transferencia(t, usuario_rector, motivo_rechazo, falla) ==
    IF ~is_ente_rector(usuario_rector) THEN SinCambios("TypeError")
    ELSE IF transferencias[t].estado # SOLICITADA THEN SinCambios("ValidationError")
    ELSE IF enviar_notificacion(falla) = "raise" THEN SinCambios("NotificationError")
    ELSE Salida("OK",
                [transferencias EXCEPT ![t] =
                    rechazar(transferencias[t], usuario_rector, motivo_rechazo)],
                items, cola)

\* TransferService.iniciar_transito, whole
TransferService_iniciar_transito(t, usuario, falla) ==
    IF UserHidrologica(usuario) # transferencias[t].hidrologica_origen
    THEN SinCambios("TypeError")
    ELSE IF transferencias[t].estado # APROBADA THEN SinCambios("ValidationError")
    ELSE IF enviar_notificacion_multiple(falla) = "raise"
    THEN SinCambios("NotificationError")
    ELSE Salida("OK",
                [transferencias EXCEPT ![t] = iniciar_transito(transferencias[t], usuario, now)],
                items, cola)

\* TransferService.completar_transferencia, whole
completar_transferencia(t, usuario, falla) ==
    LET fila == completar(transferencias[t], usuario, now) IN
    IF UserHidrologica(usuario) # transferencias[t].hidrologica_destino
    THEN SinCambios("TypeError")
    ELSE IF transferencias[t].estado # EN_TRANSITO THEN SinCambios("ValidationError")
    ELSE IF enviar_notificacion_multiple(falla) = "raise"
    THEN SinCambios("NotificationError")
    ELSE Salida("OK", [transferencias EXCEPT ![t] = fila],
                [i \in ItemIds |-> IF i \in ItemsDe(t)
                                   THEN CompletarItem(items[i], fila, usuario)
                                   ELSE items[i]],
                cola)

\* the code confirmar_accion_qr gives for what the service raised
codigo_qr(r) ==
    [r EXCEPT !.codigo = IF r.codigo = "OK" THEN "OK"
                         ELSE IF r.codigo = "ValidationError" THEN "BUSINESS_RULE_VIOLATION"
                         ELSE "INTERNAL_ERROR"]

\* QRService.confirmar_accion_qr, whole
confirmar_accion_qr(token, accion, usuario, falla) ==
    LET validacion == validar_qr_token(token, now)
        t == BuscarPorToken(token)
    IN IF validacion # "OK" THEN SinCambios(validacion)
       ELSE IF accion = "iniciar_transito"
       THEN IF UserHidrologica(usuario) # transferencias[t].hidrologica_origen
            THEN SinCambios("UNAUTHORIZED_ORIGIN")
            ELSE IF ~puede_iniciarse(transferencias[t])
            THEN SinCambios("INVALID_STATE_FOR_TRANSIT")
            ELSE codigo_qr(TransferService_iniciar_transito(t, usuario, falla))
       ELSE IF accion = "completar"
       THEN IF UserHidrologica(usuario) # transferencias[t].hidrologica_destino
            THEN SinCambios("UNAUTHORIZED_DESTINATION")
            ELSE IF ~puede_completarse(transferencias[t])
            THEN SinCambios("INVALID_STATE_FOR_COMPLETION")
            ELSE codigo_qr(completar_transferencia(t, usuario, falla))
       ELSE SinCambios("INVALID_ACTION")

\* QRService.validar_qr_token with the parameters of a scanned URL: when all
\* three are given they are verified and the stored URL is not looked at
validar_qr_token_url(token, signature, timestamp, transferencia_id, ahora) ==
    LET dados == signature # SinFirma /\ timestamp # <<>> /\ transferencia_id # <<>>
        firma == validar_firma_url(token, signature, timestamp, transferencia_id, ahora)
    IN IF dados /\ firma # "OK" THEN firma
       ELSE IF dados
       THEN IF BuscarPorToken(token) = 0 THEN "TOKEN_NOT_FOUND" ELSE "OK"
       ELSE validar_qr_token(token, ahora)

\* the parameters a caller of the validation route may send with a token: none,
\* those of a stored URL, or those with a later expiry written in
ParametrosPresentables ==
    {extraer_parametros_url(SinUrl)}
      \cup {extraer_parametros_url(transferencias[t].url_firmada) : t \in Existentes}
      \cup {[extraer_parametros_url(transferencias[t].url_firmada)
                EXCEPT !.timestamp = str_int(MaxTime + 1)] : t \in Existentes}

\* no request and no task run is between its read and its write
EnReposo == \A s \in 1..MaxReq : reqs[s] = Idle

BaseDeDatos == [transferencias |-> transferencias, items |-> items, cola |-> cola]

NingunaLlamada ==
    [op |-> "none", via |-> "", t |-> 0, token |-> SinToken, usuario |-> SinUsuario,
     arg |-> "", falla |-> "ninguna", codigo |-> "none", item |-> 0, hechas |-> 0,
     params |-> extraer_parametros_url(SinUrl),
     antes |-> [transferencias |-> <<>>, items |-> <<>>, cola |-> <<>>]]

\* the notification failure belongs to the record only when one was sent
FallaVista(r, falla) == IF r.codigo \in {"OK", "NotificationError"} THEN falla ELSE "ninguna"

\* QRValidationViewSet.validar: nothing is written
ValidarRegistrada ==
    /\ llamada = NingunaLlamada
    /\ EnReposo
    /\ \E token \in TokensPresentables, p \in ParametrosPresentables :
         llamada' = [NingunaLlamada EXCEPT
                       !.op = "validar", !.via = "qr", !.token = token, !.params = p,
                       !.t = BuscarPorToken(token),
                       !.codigo = validar_qr_token_url(token, p.signature, p.timestamp,
                                                       p.transferencia_id, now),
                       !.antes = BaseDeDatos]
    /\ UNCHANGED <<firmado, presentado, reloj, veredicto, solicitud>>
    /\ UNCHANGED varsRegistros
    /\ UNCHANGED varsFlujo

\* QRValidationViewSet.confirmar_accion, from the request to the response
ConfirmarQRRegistrada ==
    /\ llamada = NingunaLlamada
    /\ EnReposo
    /\ \E token \in TokensPresentables, accion \in Acciones, usuario \in Users,
          falla \in FallasNotificacion :
         LET r == confirmar_accion_qr(token, accion, usuario, falla) IN
         /\ transferencias' = r.transferencias
         /\ items' = r.items
         /\ cola' = r.cola
         /\ llamada' = [NingunaLlamada EXCEPT
                          !.op = accion, !.via = "qr", !.token = token,
                          !.t = BuscarPorToken(token), !.usuario = usuario,
                          !.falla = FallaVista(r, falla), !.codigo = r.codigo,
                          !.antes = BaseDeDatos]
    /\ UNCHANGED <<firmado, presentado, reloj, veredicto, solicitud>>
    /\ UNCHANGED varsRegistros
    /\ UNCHANGED <<lineas, now, reqs, tokens_emitidos, ops>>

OperacionesServicio == {"aprobar", "rechazar", "iniciar_transito", "completar"}

\* one call of a TransferService operation with the transfer's id
llamar_servicio(op, t, usuario, arg, falla) ==
    CASE op = "aprobar" -> aprobar_transferencia(t, usuario, arg, falla)
      [] op = "rechazar" -> rechazar_transferencia(t, usuario, arg, falla)
      [] op = "iniciar_transito" -> TransferService_iniciar_transito(t, usuario, falla)
      [] op = "completar" -> completar_transferencia(t, usuario, falla)

\* TransferenciaExternaViewSet.aprobar_rechazar / iniciar_transito / completar,
\* from the call of the service to its return
ServicioRegistrada ==
    /\ llamada = NingunaLlamada
    /\ EnReposo
    /\ \E op \in OperacionesServicio, t \in Existentes, usuario \in Users,
          falla \in FallasNotificacion :
         \E arg \in IF op \in {"aprobar", "rechazar"} THEN {"", "texto"} ELSE {""} :
           LET r == llamar_servicio(op, t, usuario, arg, falla) IN
           /\ transferencias' = r.transferencias
           /\ items' = r.items
           /\ cola' = r.cola
           /\ llamada' = [NingunaLlamada EXCEPT
                            !.op = op, !.via = "servicio", !.t = t, !.usuario = usuario,
                            !.arg = arg, !.falla = FallaVista(r, falla),
                            !.codigo = r.codigo, !.antes = BaseDeDatos]
    /\ UNCHANGED <<firmado, presentado, reloj, veredicto, solicitud>>
    /\ UNCHANGED varsRegistros
    /\ UNCHANGED <<lineas, now, reqs, tokens_emitidos, ops>>

\* ------------------------------------------------ writes and their undoing
\* the database after each write of ItemInventario.cambiar_estado on item i:
\* the save of estado, then the save of the history with the new event
EscriturasCambiarEstado(db, i, nuevo_estado, usuario) ==
    << [db EXCEPT !.items[i].estado = nuevo_estado],
       [db EXCEPT !.items[i] = cambiar_estado(db.items[i], nuevo_estado, usuario)] >>

Ultima(db, ws) == IF ws = <<>> THEN db ELSE ws[Len(ws)]

\* the items of a set in the order the lines are read
RECURSIVE EnOrden(_)
EnOrden(S) ==
    IF S = {} THEN <<>>
    ELSE LET i == CHOOSE x \in S : \A y \in S : x <= y
         IN <<i>> \o EnOrden(S \ {i})

RECURSIVE EscriturasAprobarItems(_, _, _)
EscriturasAprobarItems(db, ls, usuario) ==
    IF ls = <<>> THEN <<>>
    ELSE LET ws == EscriturasCambiarEstado(db, Head(ls), ITEM_EN_TRANSITO, usuario)
         IN ws \o EscriturasAprobarItems(Ultima(db, ws), Tail(ls), usuario)

\* the writes of aprobar_transferencia: the save of aprobar, the save of
\* the observaciones when there are some, then two writes per line item
EscriturasAprobar(db, t, usuario, observaciones) ==
    LET db1 == [db EXCEPT !.transferencias[t] = aprobar(@, usuario, now)]
        db2 == [db1 EXCEPT !.transferencias[t].observaciones =
                  Append(@, [nota |-> "Aprobacion", texto |-> observaciones])]
        primeras == IF observaciones # "" THEN <<db1, db2>> ELSE <<db1>>
    IN primeras \o EscriturasAprobarItems(Ultima(db, primeras), EnOrden(ItemsDe(t)), usuario)

RECURSIVE EscriturasCompletarItems(_, _, _, _)
EscriturasCompletarItems(db, ls, fila, usuario) ==
    IF ls = <<>> THEN <<>>
    ELSE LET i == Head(ls)
             a == [db EXCEPT !.items[i].hidrologica = fila.hidrologica_destino,
                             !.items[i].acueducto_actual = fila.acueducto_destino]
             bc == EscriturasCambiarEstado(a, i, DISPONIBLE, usuario)
             d == [bc[2] EXCEPT !.items[i] = registrar_transferencia_externa(@, fila, usuario)]
         IN <<a>> \o bc \o <<d>> \o EscriturasCompletarItems(d, Tail(ls), fila, usuario)

\* the writes of completar_transferencia: the save of completar, then four
\* writes per line item
EscriturasCompletar(db, t, usuario) ==
    LET fila == completar(db.transferencias[t], usuario, now)
        db1 == [db EXCEPT !.transferencias[t] = fila]
    IN <<db1>> \o EscriturasCompletarItems(db1, EnOrden(ItemsDe(t)), fila, usuario)

sin_transaccion(db, ws, hechas) == IF hechas = 0 THEN db ELSE ws[hechas]

transaction_atomic_soloItems(db, ws, hechas) ==
    IF hechas = 0 THEN db ELSE IF hechas < Len(ws) THEN ws[1] ELSE Ultima(db, ws)

\* transaction.atomic around a block of which `hechas` writes were done when
\* it ended: an exception before the last write undoes the ones done
transaction_atomic(db, ws, hechas) == IF hechas < Len(ws) THEN db ELSE Ultima(db, ws)

\* a recorded call of which `hechas` of its writes ws succeed
LlamadaConEscrituras(op, t, i, usuario, arg, ws, hechas) ==
    LET db == transaction_atomic(BaseDeDatos, ws, hechas) IN
    /\ transferencias' = db.transferencias
    /\ items' = db.items
    /\ cola' = IF op = "aprobar" /\ hechas = Len(ws) THEN [cola EXCEPT ![t] = @ + 1] ELSE cola
    /\ llamada' = [NingunaLlamada EXCEPT
                     !.op = op, !.via = "escrituras", !.t = t, !.item = i,
                     !.usuario = usuario, !.arg = arg, !.hechas = hechas,
                     !.codigo = IF hechas = Len(ws) THEN "OK" ELSE "DatabaseError",
                     !.antes = BaseDeDatos]
    /\ UNCHANGED <<firmado, presentado, reloj, veredicto, solicitud>>
    /\ UNCHANGED varsRegistros
    /\ UNCHANGED <<lineas, now, reqs, tokens_emitidos, ops>>

\* ItemInventarioViewSet.cambiar_estado (the later definition in the class,
\* which replaces the earlier one) with InventoryService.cambiar_estado_item
CambiarEstadoEscrituras ==
    /\ llamada = NingunaLlamada
    /\ EnReposo
    /\ \E i \in ItemIds, usuario \in Users, nuevo_estado \in EstadosPedidos :
         /\ PuedeGestionarItem(usuario, items[i])
         /\ items[i].estado # nuevo_estado
         /\ LET ws == EscriturasCambiarEstado(BaseDeDatos, i, nuevo_estado, usuario) IN
            \E hechas \in 0..Len(ws) :
              LlamadaConEscrituras("cambiar_estado", 0, i, usuario, nuevo_estado, ws, hechas)

\* TransferService.aprobar_transferencia past its checks
AprobarEscrituras ==
    /\ llamada = NingunaLlamada
    /\ EnReposo
    /\ \E t \in Existentes, usuario \in Users, observaciones \in {"", "texto"} :
         /\ is_ente_rector(usuario)
         /\ transferencias[t].estado = SOLICITADA
         /\ LET ws == EscriturasAprobar(BaseDeDatos, t, usuario, observaciones) IN
            \E hechas \in 0..Len(ws) :
              LlamadaConEscrituras("aprobar", t, 0, usuario, observaciones, ws, hechas)

\* TransferService.completar_transferencia past its checks
CompletarEscrituras ==
    /\ llamada = NingunaLlamada
    /\ EnReposo
    /\ \E t \in Existentes, usuario \in Users :
         /\ UserHidrologica(usuario) = transferencias[t].hidrologica_destino
         /\ transferencias[t].estado = EN_TRANSITO
         /\ LET ws == EscriturasCompletar(BaseDeDatos, t, usuario) IN
            \E hechas \in 0..Len(ws) :
              LlamadaConEscrituras("completar", t, 0, usuario, "", ws, hechas)

\* --------------------------------------------- the verifier on its own
\* Inputs of one call of validar_firma_url: the triple that was signed, the
\* triple that is presented with that signature, and the clock.
IdStrs == {<<"u", "1">>, <<"u", "2">>, <<"u", "1", ":", "k">>}
TokStrs == {<<"k", "1">>, <<"k", "2">>, <<"k", ":", "k", "1">>}
TsStrs == {str_int(n) : n \in 0..MaxTs}
            \cup {<<"0">> \o str_int(n) : n \in 0..MaxTs}
            \cup {<<"x">>, <<>>}
TsFirmables == {str_int(n) : n \in 0..MaxTs}
Relojes == 0..(MaxTs + 1)

SinLlamada == [id |-> <<>>, token |-> <<>>, ts |-> <<>>]

InitLlamadas ==
    /\ firmado = SinLlamada
    /\ presentado = SinLlamada
    /\ reloj = 0
    /\ veredicto = "none"
    /\ solicitud = SinSolicitud
    /\ llamada = NingunaLlamada

\* the caller obtains a signature for (id, token, ts) and picks what to present
ElegirEntrada ==
    /\ veredicto = "none"
    /\ firmado = SinLlamada
    /\ \E i \in IdStrs, k \in TokStrs, e \in TsFirmables :
         firmado' = [id |-> i, token |-> k, ts |-> e]
    /\ \E i \in IdStrs, k \in TokStrs, e \in TsStrs :
         presentado' = [id |-> i, token |-> k, ts |-> e]
    /\ reloj' \in Relojes
    /\ UNCHANGED <<veredicto, solicitud, llamada>>
    /\ UNCHANGED varsRegistros
    /\ UNCHANGED varsFlujo

\* verify(token, sign(firmado), ts, id) on the presented values
Verificar ==
    /\ firmado # SinLlamada
    /\ veredicto = "none"
    /\ veredicto' = validar_firma_url(presentado.token,
                        firmar(firmado.id, firmado.token, firmado.ts),
                        presentado.ts, presentado.id, reloj)
    /\ UNCHANGED <<firmado, presentado, reloj, solicitud, llamada>>
    /\ UNCHANGED varsRegistros
    /\ UNCHANGED varsFlujo

NextFirma == ElegirEntrada \/ Verificar

\* --------------------------------------------------------- internal moves
\* the moves of a run, and the sub-locations a move may name (A2 is a second
\* sub-location of HA)
MaxMovimientos == 2
AcueductosDestino == Acueductos \cup {"A2"}
Motivos == {"", "traslado"}

\* ItemHistoryService.registrar_movimiento_interno: both snapshots carry the
\* unit of the item
registrar_movimiento_interno(item, acueducto_origen, acueducto_destino, usuario) ==
    registrar_evento(item, "movimiento_interno", usuario,
        [hidrologica |-> item.hidrologica, acueducto |-> acueducto_origen],
        [hidrologica |-> item.hidrologica, acueducto |-> acueducto_destino],
        "interno", "", 0)

mover_a_acueducto_sinOrigen(item, nuevo_acueducto, usuario) ==
    registrar_movimiento_interno([item EXCEPT !.acueducto_actual = nuevo_acueducto],
                                 nuevo_acueducto, nuevo_acueducto, usuario)

\* ItemInventario.mover_a_acueducto past its check of the unit: the previous
\* sub-location is kept, the new one saved, the event recorded
mover_a_acueducto(item, nuevo_acueducto, usuario) ==
    registrar_movimiento_interno([item EXCEPT !.acueducto_actual = nuevo_acueducto],
                                 item.acueducto_actual, nuevo_acueducto, usuario)

\* MovimientoInterno.clean with the non-blank motivo of full_clean
MovimientoInterno_clean(mov, item) ==
    /\ mov.motivo # ""
    /\ mov.acueducto_origen # mov.acueducto_destino
    /\ AcueductoHidrologica(mov.acueducto_origen) = AcueductoHidrologica(mov.acueducto_destino)
    /\ item.acueducto_actual = mov.acueducto_origen
    /\ item.hidrologica = AcueductoHidrologica(mov.acueducto_origen)

SalidaMovimiento(codigo, its, movs) == [codigo |-> codigo, items |-> its, movimientos |-> movs]

crear_movimiento_interno_sinEstado(its, movs, i, acueducto_destino, usuario, motivo) ==
    LET item == its[i]
        mov == [item |-> i, acueducto_origen |-> item.acueducto_actual,
                acueducto_destino |-> acueducto_destino, usuario |-> usuario,
                motivo |-> motivo]
    IN IF \/ UserHidrologica(usuario) # item.hidrologica
          \/ AcueductoHidrologica(acueducto_destino) # item.hidrologica
          \/ item.acueducto_actual = acueducto_destino
       THEN SalidaMovimiento("TypeError", its, movs)
       ELSE IF ~MovimientoInterno_clean(mov, item)
       THEN SalidaMovimiento("ValidationError", its, movs)
       ELSE SalidaMovimiento("OK",
                [its EXCEPT ![i] = mover_a_acueducto(item, acueducto_destino, usuario)],
                Append(movs, mov))

\* MovimientoInternoService.crear_movimiento_interno, with
\* MovimientoInterno.objects.create and MovimientoInterno.save; the checks
\* raise ValidationError of apps.core.exceptions with one argument, and the
\* notification goes to the users of the unit one by one
crear_movimiento_interno(its, movs, i, acueducto_destino, usuario, motivo) ==
    LET item == its[i]
        mov == [item |-> i, acueducto_origen |-> item.acueducto_actual,
                acueducto_destino |-> acueducto_destino, usuario |-> usuario,
                motivo |-> motivo]
    IN IF \/ UserHidrologica(usuario) # item.hidrologica
          \/ AcueductoHidrologica(acueducto_destino) # item.hidrologica
          \/ item.acueducto_actual = acueducto_destino
          \/ item.estado # DISPONIBLE
       THEN SalidaMovimiento("TypeError", its, movs)
       ELSE IF ~MovimientoInterno_clean(mov, item)
       THEN SalidaMovimiento("ValidationError", its, movs)
       ELSE SalidaMovimiento("OK",
                [its EXCEPT ![i] = mover_a_acueducto(item, acueducto_destino, usuario)],
                Append(movs, mov))

\* one call of the service, recorded with the rows it found
MovimientoRegistrado ==
    /\ EnReposo
    /\ llamada.op \in {"none", "mover"}
    /\ Len(movimientos) < MaxMovimientos
    /\ \E i \in ItemIds, acueducto_destino \in AcueductosDestino, usuario \in Users,
          motivo \in Motivos :
         LET r == crear_movimiento_interno(items, movimientos, i, acueducto_destino,
                                           usuario, motivo) IN
         /\ items' = r.items
         /\ movimientos' = r.movimientos
         /\ llamada' = [NingunaLlamada EXCEPT
                          !.op = "mover", !.via = "servicio", !.item = i,
                          !.usuario = usuario, !.arg = acueducto_destino,
                          !.codigo = r.codigo,
                          !.antes = [items |-> items, movimientos |-> movimientos]]
    /\ UNCHANGED <<firmado, presentado, reloj, veredicto, solicitud, ordenes, ficha, contexto>>
    /\ UNCHANGED <<transferencias, lineas, now, reqs, cola, tokens_emitidos, ops>>

\* InventoryService.cambiar_estado_item as one call: the state is changed and
\* the event appended only when the new state differs; nothing is raised
InventoryService_cambiar_estado_item(item, nuevo_estado, usuario) ==
    [codigo |-> "OK",
     item |-> IF item.estado # nuevo_estado
              THEN cambiar_estado_item(item, item, nuevo_estado, usuario)
              ELSE item]

\* one call of the service, with the state it found
CambiarEstadoItemRegistrado ==
    /\ EnReposo
    /\ llamada.op \in {"none", "mover"}
    /\ \E i \in ItemIds, nuevo_estado \in EstadosPedidos, usuario \in Users :
         LET r == InventoryService_cambiar_estado_item(items[i], nuevo_estado, usuario) IN
         /\ items' = [items EXCEPT ![i] = r.item]
         /\ llamada' = [NingunaLlamada EXCEPT
                          !.op = "cambiar_estado_item", !.via = "servicio", !.item = i,
                          !.usuario = usuario, !.arg = nuevo_estado,
                          !.codigo = r.codigo,
                          !.antes = [items |-> items, movimientos |-> movimientos]]
    /\ UNCHANGED <<firmado, presentado, reloj, veredicto, solicitud, ordenes, movimientos, ficha, contexto>>
    /\ UNCHANGED <<transferencias, lineas, now, reqs, cola, tokens_emitidos, ops>>

\* moves of items whose state the operators changed
NextMovimiento ==
    \/ MovimientoRegistrado
    \/ CambiarEstadoItemRegistrado
    \/ llamada = NingunaLlamada /\ CambiarEstadoLeer
    \/ llamada = NingunaLlamada /\ \E s \in 1..MaxReq : CambiarEstadoCommit(s)

\* ------------------------------------------------------ reading a history
\* the events of a history and the instants of its clock
MaxEventos == 3
MaxReloj == 3

\* an event without the key 'timestamp'
SinTimestamp == -1

SinLeer == [de |-> <<>>, resultado |-> <<>>, leido |-> FALSE]
SinConsulta == [op |-> "none", usuario_id |-> SinUsuario, de |-> <<>>,
                codigo |-> "none", resultado |-> <<>>]
SinFicha == [eventos |-> <<>>, reloj |-> 1, lectura |-> SinLeer, consulta |-> SinConsulta]

\* the kinds of the events of a run, and who acts (nobody for a system event)
TiposEvento == {"cambio_estado", "mantenimiento"}
Actores == Users \cup {SinUsuario}

\* 'usuario' of an event of registrar_evento: a dict with the id and the
\* username, or None when no user was given
UsuarioEvento(usuario) ==
    IF usuario = SinUsuario THEN [forma |-> "None", id |-> SinUsuario, username |-> SinUsuario]
    ELSE [forma |-> "dict", id |-> usuario, username |-> usuario]

\* 'usuario' of an event of agregar_movimiento: the username, or None
UsuarioMovimiento(usuario) ==
    IF usuario = SinUsuario THEN [forma |-> "None", id |-> SinUsuario, username |-> SinUsuario]
    ELSE [forma |-> "str", id |-> SinUsuario, username |-> usuario]

\* key=lambda x: x.get('timestamp', 0)
ClaveTimestamp(evento) == IF evento.timestamp = SinTimestamp THEN 0 ELSE evento.timestamp

\* sorted(historial, key=..., reverse=True): the sort is stable, events of
\* equal key keep the order they have in the list
RECURSIVE sorted_reverse(_)
sorted_reverse(historial) ==
    IF historial = <<>> THEN <<>>
    ELSE LET mayor == CHOOSE k \in {ClaveTimestamp(historial[i]) : i \in DOMAIN historial} :
                        \A i \in DOMAIN historial : ClaveTimestamp(historial[i]) <= k
             EsMayor(e) == ClaveTimestamp(e) = mayor
             NoEsMayor(e) == ClaveTimestamp(e) # mayor
         IN SelectSeq(historial, EsMayor) \o sorted_reverse(SelectSeq(historial, NoEsMayor))

\* ItemHistoryService.obtener_historial_completo
obtener_historial_completo(historial) ==
    IF historial = <<>> THEN <<>> ELSE sorted_reverse(historial)

\* ItemHistoryService.registrar_evento: the event carries timezone.now().timestamp()
RegistrarEvento ==
    /\ Len(ficha.eventos) < MaxEventos
    /\ \E usuario \in Actores, tipo \in TiposEvento :
         ficha' = [ficha EXCEPT !.eventos = Append(@, [id |-> Len(@) + 1,
                                                      timestamp |-> ficha.reloj,
                                                      fecha |-> ficha.reloj,
                                                      tipo |-> tipo,
                                                      usuario |-> UsuarioEvento(usuario)]),
                               !.lectura = SinLeer, !.consulta = SinConsulta]
    /\ UNCHANGED <<contexto, ordenes, movimientos, firmado, presentado, reloj, veredicto, solicitud, llamada>>
    /\ UNCHANGED varsFlujo

\* ItemInventario.agregar_movimiento: the event carries 'fecha' only
AgregarMovimiento ==
    /\ Len(ficha.eventos) < MaxEventos
    /\ \E usuario \in Actores, tipo \in TiposEvento :
         ficha' = [ficha EXCEPT !.eventos = Append(@, [id |-> Len(@) + 1,
                                                      timestamp |-> SinTimestamp,
                                                      fecha |-> ficha.reloj,
                                                      tipo |-> tipo,
                                                      usuario |-> UsuarioMovimiento(usuario)]),
                               !.lectura = SinLeer, !.consulta = SinConsulta]
    /\ UNCHANGED <<contexto, ordenes, movimientos, firmado, presentado, reloj, veredicto, solicitud, llamada>>
    /\ UNCHANGED varsFlujo

\* the clock of timezone.now() moves on
AvanzarReloj ==
    /\ ficha.reloj < MaxReloj
    /\ ficha' = [ficha EXCEPT !.reloj = @ + 1]
    /\ UNCHANGED <<contexto, ordenes, movimientos, firmado, presentado, reloj, veredicto, solicitud, llamada>>
    /\ UNCHANGED varsFlujo

\* a caller reads the whole history
LeerHistorial ==
    /\ ~ficha.lectura.leido
    /\ ficha' = [ficha EXCEPT !.lectura =
                   [de |-> ficha.eventos, leido |-> TRUE,
                    resultado |-> obtener_historial_completo(ficha.eventos)]]
    /\ UNCHANGED <<contexto, ordenes, movimientos, firmado, presentado, reloj, veredicto, solicitud, llamada>>
    /\ UNCHANGED varsFlujo

\* evento.get('usuario', {}).get(...): the key is always there, so the
\* default is never used, and None or a string has no method get
SinGet(historial) == \E k \in DOMAIN historial : historial[k].usuario.forma # "dict"

\* ItemHistoryService.obtener_historial_por_usuario
obtener_historial_por_usuario(historial, usuario_id) ==
    LET h == obtener_historial_completo(historial)
        DelUsuario(e) == e.usuario.id = usuario_id
    IN IF SinGet(h) THEN [codigo |-> "AttributeError", resultado |-> <<>>]
       ELSE [codigo |-> "OK", resultado |-> SelectSeq(h, DelUsuario)]

SinReporte ==
    [total_eventos |-> 0, tipos_eventos |-> [tipo \in {} |-> 0],
     usuarios_involucrados |-> {}, fecha_primer_evento |-> SinFecha,
     fecha_ultimo_evento |-> SinFecha]

\* ItemHistoryService.generar_reporte_trazabilidad: the statistics (the
\* locations, which the events of this history do not carry, left out)
generar_reporte_trazabilidad(historial) ==
    LET h == obtener_historial_completo(historial)
        tipos == {h[k].tipo : k \in DOMAIN h}
    IN IF SinGet(h) THEN [codigo |-> "AttributeError", resultado |-> SinReporte]
       ELSE [codigo |-> "OK",
             resultado |->
               [total_eventos |-> Len(h),
                tipos_eventos |-> [tipo \in tipos |->
                                     Cardinality({k \in DOMAIN h : h[k].tipo = tipo})],
                usuarios_involucrados |-> {h[k].usuario.username : k \in DOMAIN h},
                fecha_primer_evento |-> IF h = <<>> THEN SinFecha ELSE h[Len(h)].fecha,
                fecha_ultimo_evento |-> IF h = <<>> THEN SinFecha ELSE h[1].fecha]]

\* a caller asks for the events of one user
ConsultarPorUsuario ==
    /\ ficha.consulta.op = "none"
    /\ \E usuario_id \in Users :
         LET r == obtener_historial_por_usuario(ficha.eventos, usuario_id) IN
         ficha' = [ficha EXCEPT !.consulta =
                     [op |-> "por_usuario", usuario_id |-> usuario_id, de |-> ficha.eventos,
                      codigo |-> r.codigo, resultado |-> r.resultado]]
    /\ UNCHANGED <<contexto, ordenes, movimientos, firmado, presentado, reloj, veredicto, solicitud, llamada>>
    /\ UNCHANGED varsFlujo

\* a caller asks for the traceability report
GenerarReporte ==
    /\ ficha.consulta.op = "none"
    /\ LET r == generar_reporte_trazabilidad(ficha.eventos) IN
       ficha' = [ficha EXCEPT !.consulta =
                   [op |-> "reporte", usuario_id |-> SinUsuario, de |-> ficha.eventos,
                    codigo |-> r.codigo, resultado |-> r.resultado]]
    /\ UNCHANGED <<contexto, ordenes, movimientos, firmado, presentado, reloj, veredicto, solicitud, llamada>>
    /\ UNCHANGED varsFlujo

NextHistorial ==
    \/ RegistrarEvento
    \/ AgregarMovimiento
    \/ AvanzarReloj
    \/ LeerHistorial
    \/ ConsultarPorUsuario
    \/ GenerarReporte

\* ------------------------------------------------------- the tenant context
Hilos == {1, 2}
SinAtributo == "absent"
HidrologicaIds == Hidrologicas \cup {"None"}
Salidas == {"return", "exception"}

\* threading.local() of a thread that has set nothing; hasattr_is_ente_rector
\* tells whether the attribute is_ente_rector exists
SinLocales ==
    [hidrologica_id |-> SinAtributo, hasattr_is_ente_rector |-> FALSE,
     is_ente_rector |-> FALSE]

\* TenantContext.set_current_hidrologica
set_current_hidrologica(locales, hidrologica_id) ==
    [locales EXCEPT !.hidrologica_id = hidrologica_id]

\* TenantContext.get_current_hidrologica: getattr with default None
get_current_hidrologica(locales) ==
    IF locales.hidrologica_id = SinAtributo THEN "None" ELSE locales.hidrologica_id

\* TenantContext.set_is_ente_rector
set_is_ente_rector(locales, es_rector) ==
    [locales EXCEPT !.hasattr_is_ente_rector = TRUE, !.is_ente_rector = es_rector]

\* TenantContext.get_is_ente_rector: getattr with default False
get_is_ente_rector(locales) ==
    IF locales.hasattr_is_ente_rector THEN locales.is_ente_rector ELSE FALSE

\* TenantContext.clear: both attributes deleted
clear_tenant_context(locales) == SinLocales

set_tenant_context(locales, hidrologica_id, es_rector) ==
    set_is_ente_rector(set_current_hidrologica(locales, hidrologica_id), es_rector)

\* what the getters answer
ContextoVisto(locales) ==
    [hidrologica_id |-> get_current_hidrologica(locales),
     is_ente_rector |-> get_is_ente_rector(locales)]

\* the finally block of the wrapper: the old context set again when a unit was
\* set, everything cleared otherwise
restaurar_contexto(locales, old_hidrologica, old_is_ente_rector) ==
    IF old_hidrologica # "None"
    THEN set_tenant_context(locales, old_hidrologica, old_is_ente_rector)
    ELSE clear_tenant_context(locales)

\* the wrapper of with_tenant_context(hidrologica_id, is_ente_rector) around a
\* function that reads the context and returns or raises
with_tenant_context(locales, hidrologica_id, es_rector, salida) ==
    LET old_hidrologica == get_current_hidrologica(locales)
        old_is_ente_rector == get_is_ente_rector(locales)
        dentro == set_tenant_context(locales, hidrologica_id, es_rector)
    IN [dentro |-> ContextoVisto(dentro), salida |-> salida,
        locales |-> restaurar_contexto(dentro, old_hidrologica, old_is_ente_rector)]

SinEnvuelta ==
    [op |-> "none", hilo |-> 0, hidrologica_id |-> "None", is_ente_rector |-> FALSE,
     salida |-> "none", antes |-> SinLocales, dentro |-> ContextoVisto(SinLocales)]
SinContexto == [locales |-> [h \in Hilos |-> SinLocales], envuelta |-> SinEnvuelta]

\* MultiTenantMiddleware.__call__ on a thread: the context of the request's user
EstablecerContexto ==
    /\ \E h \in Hilos, hidrologica_id \in HidrologicaIds, es_rector \in BOOLEAN :
         contexto' = [locales |-> [contexto.locales EXCEPT ![h] =
                                     set_tenant_context(clear_tenant_context(@),
                                                        hidrologica_id, es_rector)],
                      envuelta |-> SinEnvuelta]
    /\ UNCHANGED <<ordenes, movimientos, ficha, firmado, presentado, reloj, veredicto,
                   solicitud, llamada>>
    /\ UNCHANGED varsFlujo

\* the end of a request on a thread
LimpiarContexto ==
    /\ \E h \in Hilos :
         contexto' = [locales |-> [contexto.locales EXCEPT ![h] = clear_tenant_context(@)],
                      envuelta |-> SinEnvuelta]
    /\ UNCHANGED <<ordenes, movimientos, ficha, firmado, presentado, reloj, veredicto,
                   solicitud, llamada>>
    /\ UNCHANGED varsFlujo

\* a thread calls a function wrapped by with_tenant_context
LlamarEnvuelta ==
    /\ \E h \in Hilos, hidrologica_id \in HidrologicaIds, es_rector \in BOOLEAN,
          salida \in Salidas :
         LET r == with_tenant_context(contexto.locales[h], hidrologica_id, es_rector, salida)
         IN contexto' = [locales |-> [contexto.locales EXCEPT ![h] = r.locales],
                         envuelta |-> [op |-> "with_tenant_context", hilo |-> h,
                                       hidrologica_id |-> hidrologica_id,
                                       is_ente_rector |-> es_rector, salida |-> salida,
                                       antes |-> contexto.locales[h], dentro |-> r.dentro]]
    /\ UNCHANGED <<ordenes, movimientos, ficha, firmado, presentado, reloj, veredicto,
                   solicitud, llamada>>
    /\ UNCHANGED varsFlujo

NextContexto == EstablecerContexto \/ LimpiarContexto \/ LlamarEnvuelta

\* ---------------------------------------------------------- order numbers
\* The numero_orden column: for month f the rows NumeroOrden(prefix, 1..k)
\* with k = bloque[f], written by the first k creations of the month, and the
\* rows in sueltas; fecha is the month of the clock, ultima the last save.
SinGuardar == [numero |-> <<>>, codigo |-> "none", posicion |-> 0]

SinOrdenes ==
    [fecha |-> 1, bloque |-> [f \in DOMAIN Fechas |-> 0], sueltas |-> {},
     creadas |-> 0, ultima |-> SinGuardar]

\* the number of transfers already created in the first month
BloquesIniciales ==
    {0, 1, MaxSufijo - 3, MaxSufijo - 2, MaxSufijo - 1, MaxSufijo}

\* the rows of the column that start with the prefix of month f
Sueltas(col, f) == {s \in col.sueltas : startswith(s, Prefijo(Fechas[f]))}

\* numero_orden is unique: the row with this string exists
EnColumna(col, f, s) ==
    \/ s \in col.sueltas
    \/ \E n \in 1..MaxSufijo : n <= col.bloque[f] /\ s = NumeroOrden(Prefijo(Fechas[f]), n)

\* the greatest row of the block is its last one: the strings of a block
\* have one width, so their order is the order of their numbers
Candidatas(col, f) ==
    Sueltas(col, f) \cup
    (IF col.bloque[f] > 0 THEN {NumeroOrden(Prefijo(Fechas[f]), col.bloque[f])} ELSE {})

\* TransferenciaExterna.save of a new row in month f: the number is
\* generated, and the insert fails when the column holds it already
GuardarNueva(col, f) ==
    LET prefijo == Prefijo(Fechas[f])
        nuevo == generar_numero_orden(Candidatas(col, f), prefijo)
        posicion == col.bloque[f] + Cardinality(Sueltas(col, f)) + 1
        sigue == nuevo = NumeroOrden(prefijo, col.bloque[f] + 1)
                 /\ col.bloque[f] < MaxSufijo /\ Sueltas(col, f) = {}
    IN IF EnColumna(col, f, nuevo)
       THEN [col EXCEPT !.creadas = @ + 1,
                        !.ultima = [numero |-> nuevo, codigo |-> "IntegrityError",
                                    posicion |-> posicion]]
       ELSE [col EXCEPT !.creadas = @ + 1,
                        !.bloque[f] = IF sigue THEN @ + 1 ELSE @,
                        !.sueltas = IF sigue THEN @ ELSE @ \cup {nuevo},
                        !.ultima = [numero |-> nuevo, codigo |-> "OK",
                                    posicion |-> posicion]]

InitOrden ==
    /\ InitFlujo
    /\ InitLlamadas
    /\ movimientos = <<>>
    /\ ficha = SinFicha
    /\ contexto = SinContexto
    /\ \E k \in BloquesIniciales : ordenes = [SinOrdenes EXCEPT !.bloque[1] = k]

\* a transfer is created in the month of the clock
CrearTransferencia ==
    /\ ordenes.creadas < MaxCreadas
    /\ ordenes' = GuardarNueva(ordenes, ordenes.fecha)
    /\ UNCHANGED <<contexto, movimientos, ficha, firmado, presentado, reloj, veredicto, solicitud, llamada>>
    /\ UNCHANGED varsFlujo

\* the clock passes into the next month
CambiarMes ==
    /\ ordenes.fecha < Len(Fechas)
    /\ ordenes' = [ordenes EXCEPT !.fecha = @ + 1]
    /\ UNCHANGED <<contexto, movimientos, ficha, firmado, presentado, reloj, veredicto, solicitud, llamada>>
    /\ UNCHANGED varsFlujo

NextOrden == CrearTransferencia \/ CambiarMes

\* ------------------------------------------------------- specifications
vars == <<transferencias, lineas, items, now, reqs, cola, tokens_emitidos, ops,
          firmado, presentado, reloj, veredicto, solicitud, llamada,
          ordenes, movimientos, ficha, contexto>>

InitRegistros ==
    /\ ordenes = SinOrdenes
    /\ movimientos = <<>>
    /\ ficha = SinFicha
    /\ contexto = SinContexto

Init == InitFlujo /\ InitLlamadas /\ InitRegistros

Next ==
    \/ SolicitarTransferencia
    \/ AprobarLeer
    \/ RechazarLeer
    \/ ConfirmarQRLeer
    \/ ConfirmarServicioLeer
    \/ GenerarQRLeer
    \/ TaskLeer
    \/ CambiarEstadoLeer
    \/ MantenimientoLeer
    \/ Tick
    \/ \E s \in 1..MaxReq :
         \/ AprobarCommit(s)
         \/ RechazarCommit(s)
         \/ IniciarTransitoCommit(s)
         \/ CompletarCommit(s)
         \/ GenerarQRGuardar(s)
         \/ TaskGuardarToken(s)
         \/ TaskGuardarPdf(s)
         \/ CambiarEstadoCommit(s)
         \/ MantenimientoGuardar(s)

\* the workflow: concurrent requests and task runs over one database
Spec == Init /\ [][Next]_vars

\* the signature verifier called on chosen inputs
SpecFirma == Init /\ [][NextFirma]_vars

NextSolicitud ==
    \/ SolicitarRegistrada
    \/ solicitud = SinSolicitud /\ CambiarEstadoLeer
    \/ solicitud = SinSolicitud /\ \E s \in 1..MaxReq : CambiarEstadoCommit(s)

\* one request for a transfer, over items whose state the operators changed
SpecSolicitud == Init /\ [][NextSolicitud]_vars

\* the workflow up to one call that is made alone and recorded with its result
NextLlamada ==
    \/ ValidarRegistrada
    \/ ConfirmarQRRegistrada
    \/ ServicioRegistrada
    \/ llamada = NingunaLlamada /\ SolicitarTransferencia
    \/ llamada = NingunaLlamada /\ AprobarLeer
    \/ llamada = NingunaLlamada /\ RechazarLeer
    \/ llamada = NingunaLlamada /\ ConfirmarQRLeer
    \/ llamada = NingunaLlamada /\ GenerarQRLeer
    \/ llamada = NingunaLlamada /\ TaskLeer
    \/ llamada = NingunaLlamada /\ Tick
    \/ llamada = NingunaLlamada /\ \E s \in 1..MaxReq : AprobarCommit(s)
    \/ llamada = NingunaLlamada /\ \E s \in 1..MaxReq : RechazarCommit(s)
    \/ llamada = NingunaLlamada /\ \E s \in 1..MaxReq : IniciarTransitoCommit(s)
    \/ llamada = NingunaLlamada /\ \E s \in 1..MaxReq : CompletarCommit(s)
    \/ llamada = NingunaLlamada /\ \E s \in 1..MaxReq : GenerarQRGuardar(s)
    \/ llamada = NingunaLlamada /\ \E s \in 1..MaxReq : TaskGuardarToken(s)
    \/ llamada = NingunaLlamada /\ \E s \in 1..MaxReq : TaskGuardarPdf(s)

SpecLlamada == Init /\ [][NextLlamada]_vars

\* the workflow up to one call that changes item states, recorded with the
\* number of its writes that succeeded
NextEscrituras ==
    \/ CambiarEstadoEscrituras
    \/ AprobarEscrituras
    \/ CompletarEscrituras
    \/ llamada = NingunaLlamada /\ SolicitarTransferencia
    \/ llamada = NingunaLlamada /\ AprobarLeer
    \/ llamada = NingunaLlamada /\ ConfirmarServicioLeer
    \/ llamada = NingunaLlamada /\ CambiarEstadoLeer
    \/ llamada = NingunaLlamada /\ \E s \in 1..MaxReq : AprobarCommit(s)
    \/ llamada = NingunaLlamada /\ \E s \in 1..MaxReq : IniciarTransitoCommit(s)
    \/ llamada = NingunaLlamada /\ \E s \in 1..MaxReq : CompletarCommit(s)
    \/ llamada = NingunaLlamada /\ \E s \in 1..MaxReq : CambiarEstadoCommit(s)

SpecEscrituras == Init /\ [][NextEscrituras]_vars

\* ------------------------------------------------------------- properties
IsPrefix(a, b) == Len(a) <= Len(b) /\ SubSeq(b, 1, Len(a)) = a

\* the states of a transfer once approved
EstadosAprobados == {APROBADA, EN_TRANSITO, COMPLETADA}

\* the edges of the transition table
AristasPermitidas ==
    {<<SOLICITADA, APROBADA>>, <<SOLICITADA, RECHAZADA>>,
     <<APROBADA, EN_TRANSITO>>, <<EN_TRANSITO, COMPLETADA>>}

\* the state a transition starts from
EstadoDePartida(op) ==
    CASE op = "aprobar" -> SOLICITADA
      [] op = "rechazar" -> SOLICITADA
      [] op = "iniciar_transito" -> APROBADA
      [] op = "completar" -> EN_TRANSITO
      [] OTHER -> "none"

Transiciones == {"aprobar", "rechazar", "iniciar_transito", "completar"}

\* the request in slot s writes in this step
Escribe(s) == reqs[s] # Idle /\ reqs'[s] = Idle

\* C1: every change of a transfer's state follows an edge of the transition
\* table (Requested->Approved, Requested->Rejected, Approved->InTransit,
\* InTransit->Completed); Cancelled is never reached and nothing leaves
\* Completed or Rejected.
C1_SoloAristasPermitidas ==
    [][\A t \in DOMAIN transferencias :
          transferencias'[t].estado # transferencias[t].estado
          => <<transferencias[t].estado, transferencias'[t].estado>> \in AristasPermitidas]_vars

\* C2: of two concurrent transitions on one transfer at most one takes effect:
\* a transition that writes when the stored state is no longer the state it
\* starts from changes neither the transfer row nor any item.
C2_TransicionTardiaSinEfecto ==
    [][\A s \in 1..MaxReq :
          (/\ Escribe(s)
           /\ reqs[s].op \in Transiciones
           /\ transferencias[reqs[s].t].estado # EstadoDePartida(reqs[s].op))
          => UNCHANGED <<transferencias, items>>]_vars

\* C3: a transfer moves to InTransit or Completed only by a confirmation that
\* presented the transfer's token, with a stored signature that verifies at the
\* time of the write.
C3_SoloConTokenValido ==
    [][\A t \in DOMAIN transferencias :
          (/\ transferencias'[t].estado # transferencias[t].estado
           /\ transferencias'[t].estado \in {EN_TRANSITO, COMPLETADA})
          => \E s \in 1..MaxReq :
               /\ Escribe(s)
               /\ reqs[s].t = t
               /\ reqs[s].via = "qr"
               /\ validar_firma_url(reqs[s].snap.qr_token, reqs[s].snap.url_firmada.sig,
                                    reqs[s].snap.url_firmada.ts, IdStr(t), now) = "OK"]_vars

\* C4: the stored history of every item only grows: after every step the
\* previous list of events is a prefix of the new one.
C4_HistorialSoloCrece ==
    [][\A i \in ItemIds :
          IsPrefix(items[i].historial_movimientos, items'[i].historial_movimientos)]_vars

\* the request recorded in this step
Solicitada == solicitud = SinSolicitud /\ solicitud' # SinSolicitud

\* a request that the rules refuse, on the items as they are
Rechazable(sol, its) ==
    \/ sol.ho = sol.hd
    \/ UserHidrologica(sol.usuario) # sol.ho
    \/ \E k \in 1..Len(sol.items) :
         \/ its[sol.items[k]].hidrologica # sol.ho
         \/ its[sol.items[k]].estado \notin {DISPONIBLE, ASIGNADO}

\* C5: a successful request creates the transfer in state Requested with the
\* requested item lines, and leaves the state, unit and sub-location of every
\* line item as they were.
C5_SolicitudNoTocaItems ==
    [][(Solicitada /\ solicitud'.resultado = "creada")
       => LET t == Len(transferencias') IN
          /\ t = Len(transferencias) + 1
          /\ transferencias'[t].estado = SOLICITADA
          /\ transferencias'[t].hidrologica_origen = solicitud'.ho
          /\ transferencias'[t].hidrologica_destino = solicitud'.hd
          /\ Len(lineas') = t
          /\ lineas'[t] = solicitud'.items
          /\ \A k \in 1..Len(lineas'[t]) :
               LET i == lineas'[t][k] IN
               /\ items'[i].estado = items[i].estado
               /\ items'[i].hidrologica = items[i].hidrologica
               /\ items'[i].acueducto_actual = items[i].acueducto_actual]_vars

\* a transfer was created with two lines, whose items are as they started
C5_Witness ==
    /\ solicitud.resultado = "creada"
    /\ Len(transferencias) = 1
    /\ transferencias[1].estado = SOLICITADA
    /\ lineas[1] = <<1, 2>>
    /\ items[1].estado = DISPONIBLE
    /\ items[2].estado = ASIGNADO

\* C6: a request fails and stores neither a transfer nor a line whenever
\* origin equals destination, the requester is not of the origin unit, or any
\* requested item, first line or not, is not of the origin unit or is not
\* Available or Assigned; every stored transfer has distinct origin and
\* destination units.
C6_SolicitudRechazada ==
    [][/\ (Solicitada /\ Rechazable(solicitud', items))
          => /\ solicitud'.resultado = "error"
             /\ UNCHANGED <<transferencias, lineas, items>>
       /\ Len(lineas') = Len(transferencias')
       /\ \A t \in DOMAIN transferencias' :
            transferencias'[t].hidrologica_origen # transferencias'[t].hidrologica_destino]_vars

\* a request whose second line is an item under maintenance has failed, and
\* nothing is stored
C6_Witness ==
    /\ solicitud.resultado = "error"
    /\ solicitud.usuario = "opA"
    /\ solicitud.ho = "HA"
    /\ solicitud.hd = "HB"
    /\ solicitud.items = <<1, 2>>
    /\ items[1].estado = DISPONIBLE
    /\ items[2].estado = MANTENIMIENTO
    /\ transferencias = <<>>
    /\ lineas = <<>>

C8_TokenConAprobacion ==
    \A t \in DOMAIN transferencias :
        transferencias[t].estado \in EstadosAprobados
        => /\ transferencias[t].qr_token # SinToken
           /\ transferencias[t].url_firmada # SinUrl

\* the same values are presented as were signed
MismaEntrada == firmado # SinLlamada /\ presentado = firmado

\* C9: verify(token, sign(id, token, expiry), expiry, id) succeeds if and only
\* if now <= expiry, and fails with TokenExpired when now > expiry, for every
\* id, token, expiry and clock.
C9_IdaYVuelta ==
    (veredicto # "none" /\ MismaEntrada)
    => /\ (veredicto = "OK") <=> (reloj <= int_str(firmado.ts))
       /\ (reloj > int_str(firmado.ts)) => veredicto = "TOKEN_EXPIRED"

\* a signed triple was verified at the very moment of its expiry, and accepted
C9_Witness ==
    /\ MismaEntrada
    /\ reloj = int_str(firmado.ts)
    /\ reloj > 0
    /\ veredicto = "OK"

\* exactly one of id, token and expiry differs from what was signed
UnCampoMutado ==
    /\ firmado # SinLlamada
    /\ \/ /\ presentado.id # firmado.id
          /\ presentado.token = firmado.token
          /\ presentado.ts = firmado.ts
       \/ /\ presentado.id = firmado.id
          /\ presentado.token # firmado.token
          /\ presentado.ts = firmado.ts
       \/ /\ presentado.id = firmado.id
          /\ presentado.token = firmado.token
          /\ presentado.ts # firmado.ts

\* C10, as stated: with exactly one of token, id and expiry changed, verify
\* fails with InvalidSignature, for every replaced value and every clock.
C10_SiempreFirmaInvalida ==
    (veredicto # "none" /\ UnCampoMutado) => veredicto = "INVALID_SIGNATURE"

\* C10: with exactly one of token, id and expiry changed, verify never
\* succeeds; it fails with InvalidSignature when the presented expiry is a
\* number not yet passed, with TokenExpired when the presented expiry has
\* passed, and with a validation error when the presented expiry is no number.
C10_UnCampoMutadoFalla ==
    (veredicto # "none" /\ UnCampoMutado)
    => LET expira == int_str(presentado.ts) IN
       /\ veredicto # "OK"
       /\ (expira # -1 /\ reloj <= expira) => veredicto = "INVALID_SIGNATURE"
       /\ (expira # -1 /\ reloj > expira) => veredicto = "TOKEN_EXPIRED"
       /\ (expira = -1) => veredicto = "VALIDATION_ERROR"

\* a later expiry was presented in place of the signed one, before it passed
C10_Witness ==
    /\ UnCampoMutado
    /\ int_str(presentado.ts) > int_str(firmado.ts)
    /\ reloj <= int_str(presentado.ts)
    /\ reloj > int_str(firmado.ts)
    /\ veredicto = "INVALID_SIGNATURE"

\* the request in slot s stores a newly made signed URL in this step
AcunaUrl(s) ==
    \/ reqs[s].op = "generar_qr" /\ reqs'[s] = Idle
    \/ reqs[s].op = "generar_orden_traspaso" /\ reqs[s].fase = 1 /\ reqs'[s] # reqs[s]

\* C11: every signed URL stored on a transfer, by the order-document task as by
\* QR generation, carries the expiry time (the time of minting plus the
\* lifetime) and a signature over id, token and that time, so the verifier
\* accepts it from minting until the lifetime has elapsed and rejects it after.
C11_UrlConExpiracion ==
    [][\A s \in 1..MaxReq :
          AcunaUrl(s) =>
            LET t == reqs[s].t
                fila == transferencias'[t]
                p == extraer_parametros_url(fila.url_firmada)
            IN /\ p.timestamp = str_int(now + ExpirationTime)
               /\ p.signature = firmar(IdStr(t), fila.qr_token, p.timestamp)
               /\ \A k \in 0..ExpirationTime :
                    validar_firma_url(fila.qr_token, p.signature, p.timestamp,
                                      IdStr(t), now + k) = "OK"
               /\ validar_firma_url(fila.qr_token, p.signature, p.timestamp,
                                    IdStr(t), now + ExpirationTime + 1) = "TOKEN_EXPIRED"]_vars

\* the recorded call is made in this step
Llamada == llamada = NingunaLlamada /\ llamada' # NingunaLlamada

\* C12: verification and token resolution change no state: a verification
\* leaves the database as it was and gives the same result when repeated with
\* the same token, signature, expiry and id at the same clock value, and after
\* a confirmation made with a token that token verifies as it did before, at
\* every clock value.
C12_VerificarNoConsume ==
    [][\A token \in TokensPresentables :
         /\ \A p \in ParametrosPresentables :
              (Llamada /\ llamada'.op = "validar" /\ llamada'.token = token
                 /\ llamada'.params = p)
              => /\ UNCHANGED varsFlujo
                 /\ \A k \in 0..(MaxTime + 1) :
                      (validar_qr_token_url(token, p.signature, p.timestamp,
                                            p.transferencia_id, k))'
                      = validar_qr_token_url(token, p.signature, p.timestamp,
                                             p.transferencia_id, k)
                 /\ llamada'.codigo
                      = (validar_qr_token_url(token, p.signature, p.timestamp,
                                              p.transferencia_id, now))'
         /\ (Llamada /\ llamada'.via = "qr" /\ llamada'.op \in Acciones
               /\ llamada'.token = token /\ llamada'.codigo = "OK")
            => \A k \in 0..(MaxTime + 1) :
                 (validar_qr_token(token, k))' = validar_qr_token(token, k)]_vars

\* a departure was confirmed with a token that still verifies
C12_Witness ==
    /\ llamada.via = "qr"
    /\ llamada.op = "iniciar_transito"
    /\ llamada.codigo = "OK"
    /\ transferencias[llamada.t].estado = EN_TRANSITO
    /\ validar_qr_token(llamada.token, now) = "OK"

\* C13: after a successful confirmation of departure every later confirmation
\* of departure on the same transfer fails and leaves the state, the
\* transit-start time and the origin signature as the first one set them: once
\* a departure is stored, no confirmation of departure writes to the transfer.
C13_SalidaUnaSolaVez ==
    [][\A s \in 1..MaxReq :
          (/\ Escribe(s)
           /\ reqs[s].op = "iniciar_transito"
           /\ transferencias[reqs[s].t].estado = EN_TRANSITO
           /\ transferencias[reqs[s].t].fecha_inicio_transito # SinFecha)
          => /\ transferencias'[reqs[s].t].estado = EN_TRANSITO
             /\ transferencias'[reqs[s].t].fecha_inicio_transito
                  = transferencias[reqs[s].t].fecha_inicio_transito
             /\ transferencias'[reqs[s].t].firma_origen
                  = transferencias[reqs[s].t].firma_origen]_vars

\* results that report a token or signature that did not verify
CodigosDeToken == {"TOKEN_NOT_FOUND", "TOKEN_EXPIRED", "INVALID_SIGNATURE", "VALIDATION_ERROR"}
\* results that report an actor of the wrong unit
CodigosDePermiso == {"UNAUTHORIZED_ORIGIN", "UNAUTHORIZED_DESTINATION"}
\* results that report a transfer in the wrong state: the two codes of the
\* token route and Django's ValidationError of the model's state check
CodigosDeEstado == {"INVALID_STATE_FOR_TRANSIT", "INVALID_STATE_FOR_COMPLETION",
                    "ValidationError"}

\* the recorded call reached the transfer it names
LlamadaSobre(op) ==
    /\ llamada.op = op
    /\ llamada.t # 0
    /\ llamada.codigo \notin CodigosDeToken

FilaAntes == llamada.antes.transferencias[llamada.t]
FilaDespues == transferencias[llamada.t]

\* C14: confirm-departure on an Approved transfer by an actor outside the
\* origin unit fails with a permission error and leaves the transfer unchanged;
\* by an actor of the origin unit it sets the state to InTransit and records
\* the origin signature with that actor and the time.  Confirm-receipt is
\* accepted only from an actor of the destination unit.
C14_ConfirmarSoloUnidad ==
    /\ (LlamadaSobre("iniciar_transito") /\ FilaAntes.estado = APROBADA)
       => IF UserHidrologica(llamada.usuario) # FilaAntes.hidrologica_origen
          THEN /\ llamada.codigo \in CodigosDePermiso
               /\ BaseDeDatos = llamada.antes
          ELSE /\ llamada.codigo = "OK"
               /\ FilaDespues.estado = EN_TRANSITO
               /\ FilaDespues.fecha_inicio_transito = now
               /\ FilaDespues.firma_origen
                    = [usuario |-> llamada.usuario, timestamp |-> now,
                       accion |-> "confirmacion_salida"]
    /\ (LlamadaSobre("completar") /\ llamada.codigo = "OK")
       => UserHidrologica(llamada.usuario) = FilaAntes.hidrologica_destino
    /\ (LlamadaSobre("completar") /\ FilaAntes.estado = EN_TRANSITO
          /\ UserHidrologica(llamada.usuario) # FilaAntes.hidrologica_destino)
       => /\ llamada.codigo \in CodigosDePermiso
          /\ BaseDeDatos = llamada.antes

\* the items on the lines of the transfer of the recorded call
ItemsDeLlamada == ItemsDe(llamada.t)

\* C15: confirm-receipt on an InTransit transfer by an actor of the
\* destination unit sets the transfer to Completed with the completion time and
\* the destination signature, and for every line item sets unit and
\* sub-location to the transfer's destination, sets the state to Available and
\* appends an external-transfer event that carries the transfer's order number
\* and the transfer's origin and destination.
C15_RecepcionCompleta ==
    (/\ LlamadaSobre("completar")
     /\ FilaAntes.estado = EN_TRANSITO
     /\ UserHidrologica(llamada.usuario) = FilaAntes.hidrologica_destino)
    => /\ llamada.codigo = "OK"
       /\ FilaDespues = [FilaAntes EXCEPT
                           !.estado = COMPLETADA,
                           !.fecha_completada = now,
                           !.firma_destino = [usuario |-> llamada.usuario,
                                              timestamp |-> now,
                                              accion |-> "confirmacion_recepcion"]]
       /\ \A i \in ItemIds :
            IF i \in ItemsDeLlamada
            THEN LET antes == llamada.antes.items[i]
                     h == items[i].historial_movimientos
                 IN /\ items[i].hidrologica = FilaAntes.hidrologica_destino
                    /\ items[i].acueducto_actual = FilaAntes.acueducto_destino
                    /\ items[i].estado = DISPONIBLE
                    /\ Len(h) = Len(antes.historial_movimientos) + 2
                    /\ IsPrefix(antes.historial_movimientos, h)
                    /\ h[Len(h)].tipo = "transferencia_externa"
                    /\ h[Len(h)].usuario = llamada.usuario
                    /\ h[Len(h)].numero_orden = FilaAntes.numero_orden
                    /\ h[Len(h)].ubicacion_origen
                         = [hidrologica |-> FilaAntes.hidrologica_origen,
                            acueducto |-> FilaAntes.acueducto_origen]
                    /\ h[Len(h)].ubicacion_destino
                         = [hidrologica |-> FilaAntes.hidrologica_destino,
                            acueducto |-> FilaAntes.acueducto_destino]
            ELSE items[i] = llamada.antes.items[i]

\* a receipt was confirmed for a transfer of two items
C15_Witness ==
    /\ LlamadaSobre("completar")
    /\ llamada.codigo = "OK"
    /\ FilaAntes.estado = EN_TRANSITO
    /\ FilaDespues.estado = COMPLETADA
    /\ Cardinality(ItemsDeLlamada) = 2
    /\ \A i \in ItemsDeLlamada : items[i].hidrologica = FilaAntes.hidrologica_destino

FueraDeEstado ==
    /\ llamada.op \in Transiciones
    /\ llamada.t # 0
    /\ FilaAntes.estado # EstadoDePartida(llamada.op)

\* the actor is one the transition accepts: the rector for approve and reject,
\* the origin unit for departure, the destination unit for receipt
ActorAceptado ==
    CASE llamada.op \in {"aprobar", "rechazar"} -> is_ente_rector(llamada.usuario)
      [] llamada.op = "iniciar_transito"
           -> UserHidrologica(llamada.usuario) = FilaAntes.hidrologica_origen
      [] llamada.op = "completar"
           -> UserHidrologica(llamada.usuario) = FilaAntes.hidrologica_destino
      [] OTHER -> FALSE

C18_SoloRectorDecide ==
    (/\ llamada.op \in {"aprobar", "rechazar"}
     /\ llamada.t # 0
     /\ ~is_ente_rector(llamada.usuario))
    => /\ llamada.codigo # "OK"
       /\ FilaDespues.estado = FilaAntes.estado
       /\ FilaDespues.aprobado_por = FilaAntes.aprobado_por
       /\ FilaDespues.observaciones = FilaAntes.observaciones
       /\ items = llamada.antes.items
       /\ BaseDeDatos = llamada.antes

\* the requester tried to approve the own Requested transfer
C18_Witness ==
    /\ llamada.op = "aprobar"
    /\ llamada.t # 0
    /\ FilaAntes.estado = SOLICITADA
    /\ llamada.usuario = FilaAntes.solicitado_por
    /\ llamada.codigo # "OK"
    /\ FilaDespues.estado = SOLICITADA
    /\ ItemsDeLlamada # {}

\* C19: on every path that changes an item's state (the change-state route,
\* approval, completion) the new state and its state-change event become
\* durable together or not at all: whatever the number of writes done when the
\* call ends, no item is left with a changed state and no event for it, or
\* with a new state-change event and another state, and a call that failed
\* leaves the database as it was.
C19_EstadoYEventoJuntos ==
    llamada.via = "escrituras"
    => /\ llamada.codigo # "OK" => BaseDeDatos = llamada.antes
       /\ \A i \in ItemIds :
            LET a == llamada.antes.items[i]
                h0 == a.historial_movimientos
                h == items[i].historial_movimientos
            IN /\ IsPrefix(h0, h)
               /\ items[i].estado # a.estado
                  => \E k \in (Len(h0) + 1)..Len(h) :
                       /\ h[k].tipo = "cambio_estado"
                       /\ h[k].dato1 = a.estado
                       /\ h[k].dato2 = items[i].estado
               /\ \A k \in (Len(h0) + 1)..Len(h) :
                    h[k].tipo = "cambio_estado" => h[k].dato2 = items[i].estado

\* an approval failed between the save of an item's state and the save of
\* its event, and nothing of it is stored
C19_Witness ==
    /\ llamada.via = "escrituras"
    /\ llamada.op = "aprobar"
    /\ llamada.arg = ""
    /\ llamada.hechas = 2
    /\ llamada.codigo = "DatabaseError"
    /\ transferencias[llamada.t].estado = SOLICITADA
    /\ items = llamada.antes.items

\* C20: a failure while the notification of a transition is sent never aborts
\* the transition: a call that passes its checks commits its state change and
\* returns success whatever happens to the notification.
C20_NotificacionNoAborta ==
    (/\ llamada.op \in Transiciones
     /\ llamada.via \in {"qr", "servicio"}
     /\ llamada.t # 0
     /\ llamada.codigo \notin CodigosDeToken
     /\ FilaAntes.estado = EstadoDePartida(llamada.op)
     /\ ActorAceptado)
    => /\ llamada.codigo = "OK"
       /\ FilaDespues.estado # FilaAntes.estado


\* C21: an item's state changes to InTransit only from Available or Assigned;
\* approval never sets an item in transit from UnderMaintenance or
\* Decommissioned, also when the state changed after the request.
C21_EnTransitoSoloDesdeDisponible ==
    [][\A i \in ItemIds :
          (items'[i].estado = ITEM_EN_TRANSITO /\ items[i].estado # ITEM_EN_TRANSITO)
          => items[i].estado \in {DISPONIBLE, ASIGNADO}]_vars


\* C22: Decommissioned is terminal: once an item is Decommissioned no later
\* request (a state change, an approval, a completion) changes its state.
C22_DadoDeBajaEsTerminal ==
    [][\A i \in ItemIds :
          items[i].estado = DADO_BAJA => items'[i].estado = DADO_BAJA]_vars


\* transfers created one after another, month after month
SpecOrden == InitOrden /\ [][NextOrden]_vars

\* the number after the prefix of month f
Sufijo(s, f) == int_str(SubSeq(s, Len(Prefijo(Fechas[f])) + 1, Len(s)))

\* C23: transfers created one after another in a month get pairwise distinct
\* order numbers and the k-th carries the suffix k, also past the largest
\* value that fits the four digits of the suffix.
C23_NumerosDistintosYSeguidos ==
    [][ordenes'.creadas = ordenes.creadas + 1
       => /\ ordenes'.ultima.codigo = "OK"
          /\ ~EnColumna(ordenes, ordenes.fecha, ordenes'.ultima.numero)
          /\ Sufijo(ordenes'.ultima.numero, ordenes.fecha) = ordenes'.ultima.posicion]_vars


SpecMovimiento == Init /\ [][NextMovimiento]_vars

ItemAntes == llamada.antes.items[llamada.item]
ItemDespues == items[llamada.item]

\* C24: a successful internal move sets the item's sub-location to the
\* destination, leaves its unit and state unchanged, creates exactly one
\* movement record whose origin is the previous sub-location, and appends
\* exactly one internal-move event whose snapshots are the previous and the
\* new sub-location.
C24_MovimientoInternoCompleto ==
    (llamada.op = "mover" /\ llamada.codigo = "OK")
    => /\ ItemDespues.acueducto_actual = llamada.arg
       /\ ItemDespues.hidrologica = ItemAntes.hidrologica
       /\ ItemDespues.estado = ItemAntes.estado
       /\ \A j \in ItemIds \ {llamada.item} : items[j] = llamada.antes.items[j]
       /\ Len(movimientos) = Len(llamada.antes.movimientos) + 1
       /\ IsPrefix(llamada.antes.movimientos, movimientos)
       /\ movimientos[Len(movimientos)].item = llamada.item
       /\ movimientos[Len(movimientos)].acueducto_origen = ItemAntes.acueducto_actual
       /\ movimientos[Len(movimientos)].acueducto_destino = llamada.arg
       /\ LET h == ItemDespues.historial_movimientos IN
          /\ Len(h) = Len(ItemAntes.historial_movimientos) + 1
          /\ IsPrefix(ItemAntes.historial_movimientos, h)
          /\ h[Len(h)].tipo = "movimiento_interno"
          /\ h[Len(h)].ubicacion_origen.acueducto = ItemAntes.acueducto_actual
          /\ h[Len(h)].ubicacion_destino.acueducto = llamada.arg

\* a second move of an item, after a first one took it to another sub-location
C24_Witness ==
    /\ llamada.op = "mover"
    /\ llamada.codigo = "OK"
    /\ Len(movimientos) = MaxMovimientos
    /\ movimientos[1].item = llamada.item
    /\ ItemAntes.acueducto_actual = "A2"
    /\ ItemDespues.acueducto_actual = "A1"

\* the guards of an internal move on the rows the call found
MovimientoVedado ==
    \/ UserHidrologica(llamada.usuario) # ItemAntes.hidrologica
    \/ AcueductoHidrologica(llamada.arg) # ItemAntes.hidrologica
    \/ llamada.arg = ItemAntes.acueducto_actual
    \/ ItemAntes.estado # DISPONIBLE

\* C25: an internal move fails, changes no item and creates no movement
\* record, whenever the actor is not of the item's unit, the destination is
\* of another unit, the destination is the current sub-location, or the item
\* is not Available.
C25_MovimientoVedadoFalla ==
    (llamada.op = "mover" /\ MovimientoVedado)
    => /\ llamada.codigo # "OK"
       /\ items = llamada.antes.items
       /\ movimientos = llamada.antes.movimientos

\* a move of an item under maintenance by an operator of its unit to another
\* sub-location of the unit
C25_Witness ==
    /\ llamada.op = "mover"
    /\ ItemAntes.estado = MANTENIMIENTO
    /\ UserHidrologica(llamada.usuario) = ItemAntes.hidrologica
    /\ AcueductoHidrologica(llamada.arg) = ItemAntes.hidrologica
    /\ llamada.arg # ItemAntes.acueducto_actual
    /\ llamada.codigo # "OK"


\* events appended to one history and the readings of it
SpecHistorial == Init /\ [][NextHistorial]_vars

Reverse(s) == [i \in 1..Len(s) |-> s[Len(s) + 1 - i]]

\* C26: readAll returns exactly the stored events, each once, most recently
\* appended first, also when two events carry the same timestamp or an event
\* carries no timestamp.
C26_LecturaEnOrdenInverso ==
    ficha.lectura.leido => ficha.lectura.resultado = Reverse(ficha.lectura.de)


\* C27: confirm-receipt and approval are all-or-nothing under a storage
\* failure: when the call fails after some but not all of its writes, the
\* transfer's state, signatures and timestamps and every line item's unit,
\* sub-location, state and history are exactly as before the call.
C27_TransicionTodoONada ==
    (/\ llamada.via = "escrituras"
     /\ llamada.op \in {"aprobar", "completar"}
     /\ llamada.codigo # "OK")
    => /\ transferencias[llamada.t] = llamada.antes.transferencias[llamada.t]
       /\ \A i \in ItemsDe(llamada.t) : items[i] = llamada.antes.items[i]
       /\ cola = llamada.antes.cola

\* a receipt of two line items failed when the first item was processed whole
\* and the second one was not
C27_Witness ==
    /\ llamada.via = "escrituras"
    /\ llamada.op = "completar"
    /\ llamada.codigo = "DatabaseError"
    /\ Cardinality(ItemsDe(llamada.t)) = 2
    /\ llamada.hechas = 5
    /\ transferencias[llamada.t].estado = EN_TRANSITO
    /\ \A i \in ItemsDe(llamada.t) : items[i].hidrologica = transferencias[llamada.t].hidrologica_origen


\* C28: a reject call with an empty or missing reason fails and leaves the
\* transfer Requested with its notes and approver unchanged.
C28_RechazoPideMotivo ==
    (LlamadaSobre("rechazar") /\ llamada.arg = "")
    => /\ llamada.codigo # "OK"
       /\ FilaDespues = FilaAntes


\* C29: a successful transfer request appends exactly one history event to
\* each requested item, stored with the transfer and its lines.
C29_SolicitudDejaEvento ==
    [][(Solicitada /\ solicitud'.resultado = "creada")
       => \A k \in 1..Len(solicitud'.items) :
            LET i == solicitud'.items[k] IN
            /\ Len(items'[i].historial_movimientos) = Len(items[i].historial_movimientos) + 1
            /\ IsPrefix(items[i].historial_movimientos, items'[i].historial_movimientos)]_vars


\* the workflow fields of a row agree with its state
CamposSegunEstado(fila) ==
    /\ (fila.aprobado_por # SinUsuario /\ fila.fecha_aprobacion # SinFecha)
       <=> fila.estado \in {APROBADA, EN_TRANSITO, COMPLETADA, RECHAZADA}
    /\ (fila.aprobado_por # SinUsuario) <=> (fila.fecha_aprobacion # SinFecha)
    /\ (fila.fecha_inicio_transito # SinFecha /\ fila.firma_origen # SinFirmaDigital)
       <=> fila.estado \in {EN_TRANSITO, COMPLETADA}
    /\ (fila.fecha_inicio_transito # SinFecha) <=> (fila.firma_origen # SinFirmaDigital)
    /\ (fila.fecha_completada # SinFecha /\ fila.firma_destino # SinFirmaDigital)
       <=> fila.estado = COMPLETADA
    /\ (fila.fecha_completada # SinFecha) <=> (fila.firma_destino # SinFirmaDigital)

\* a workflow field that is set keeps its value in this step
CamposSeConservan(fila, nueva) ==
    /\ fila.aprobado_por # SinUsuario => nueva.aprobado_por = fila.aprobado_por
    /\ fila.fecha_aprobacion # SinFecha => nueva.fecha_aprobacion = fila.fecha_aprobacion
    /\ fila.fecha_inicio_transito # SinFecha
       => nueva.fecha_inicio_transito = fila.fecha_inicio_transito
    /\ fila.firma_origen # SinFirmaDigital => nueva.firma_origen = fila.firma_origen
    /\ fila.fecha_completada # SinFecha => nueva.fecha_completada = fila.fecha_completada
    /\ fila.firma_destino # SinFirmaDigital => nueva.firma_destino = fila.firma_destino

\* C30: in every reachable state the approver and the decision timestamp are
\* set exactly in the states Approved, InTransit, Completed and Rejected, the
\* transit-start timestamp and origin signature exactly in InTransit and
\* Completed, the completion timestamp and destination signature exactly in
\* Completed; once set, none of them is cleared or replaced.
C30_CamposDelFlujo ==
    /\ [](\A t \in DOMAIN transferencias : CamposSegunEstado(transferencias[t]))
    /\ [][\A t \in DOMAIN transferencias :
            CamposSeConservan(transferencias[t], transferencias'[t])]_vars


\* the acting identity of a stored event, none for a system event
ActorDe(evento) == IF evento.usuario.forma = "dict" THEN evento.usuario.id ELSE SinUsuario

\* C31: for every history, also one with system events that have no acting
\* identity, readByActor returns exactly the events of readAll whose actor is
\* the one asked for, in readAll's order, and the empty list when none
\* matches; it never fails.
C31_PorUsuarioFiltraLectura ==
    ficha.consulta.op = "por_usuario"
    => LET DelActor(e) == ActorDe(e) = ficha.consulta.usuario_id IN
       /\ ficha.consulta.codigo = "OK"
       /\ ficha.consulta.resultado =
            SelectSeq(obtener_historial_completo(ficha.consulta.de), DelActor)

\* C32: for every history, also one with events that have no acting identity,
\* summarize returns the number of stored events, per-kind counts that sum to
\* it, the set of distinct non-null actors, and the timestamps of the earliest
\* and the latest appended event.
C32_ReporteResumeHistorial ==
    ficha.consulta.op = "reporte"
    => LET h == ficha.consulta.de
           r == ficha.consulta.resultado
       IN /\ ficha.consulta.codigo = "OK"
          /\ r.total_eventos = Len(h)
          /\ \A tipo \in DOMAIN r.tipos_eventos :
               r.tipos_eventos[tipo] = Cardinality({k \in DOMAIN h : h[k].tipo = tipo})
          /\ DOMAIN r.tipos_eventos = {h[k].tipo : k \in DOMAIN h}
          /\ r.usuarios_involucrados =
               {h[k].usuario.username : k \in DOMAIN h} \ {SinUsuario}
          /\ h # <<>> => /\ r.fecha_primer_evento = h[1].fecha
                         /\ r.fecha_ultimo_evento = h[Len(h)].fecha


\* C33: InventoryService.cambiar_estado_item called with the item's current
\* state is rejected with an error, appends no history event and leaves the
\* item unchanged.
C33_MismoEstadoRechazado ==
    (llamada.op = "cambiar_estado_item" /\ llamada.arg = ItemAntes.estado)
    => /\ llamada.codigo = "ValueError"
       /\ items = llamada.antes.items


\* the fields of a transfer row that the workflow transitions set
CamposDelFlujo(fila) ==
    <<fila.estado, fila.aprobado_por, fila.fecha_aprobacion, fila.fecha_inicio_transito,
      fila.firma_origen, fila.fecha_completada, fila.firma_destino>>

\* C34: the order-document task only sets the token, the signed URL, the file
\* reference and the document-generated flag: after each of its writes the
\* transfer's state, approver, signatures and workflow timestamps are those
\* stored by the transitions committed so far, also by one committed between
\* the task's read and its write, never the older values the task read.
C34_TareaSoloEscribeDocumento ==
    [][\A s \in 1..MaxReq :
          (reqs[s].op = "generar_orden_traspaso" /\ reqs'[s] # reqs[s])
          => CamposDelFlujo(transferencias'[reqs[s].t])
               = CamposDelFlujo(transferencias[reqs[s].t])]_vars


\* ------------------------------------------- two transfers of one origin unit
MaxEnVuelo == 2

InitDosTransferencias ==
    /\ InitLlamadas
    /\ InitRegistros
    /\ transferencias = <<>>
    /\ lineas = <<>>
    /\ items = [i \in ItemIds |->
                  [estado |-> IF i = 2 THEN ASIGNADO ELSE DISPONIBLE,
                   hidrologica |-> IF i = 3 THEN "HB" ELSE "HA",
                   acueducto_actual |-> IF i = 3 THEN "B1" ELSE "A1",
                   historial_movimientos |-> <<>>]]
    /\ now = 0
    /\ reqs = [s \in 1..MaxReq |-> Idle]
    /\ cola = [t \in 1..MaxEnVuelo |-> 0]
    /\ tokens_emitidos = 0
    /\ ops = 0

\* TransferService.solicitar_transferencia while another request may exist
SolicitarOtraTransferencia ==
    /\ Len(transferencias) < MaxEnVuelo
    /\ \E usuario \in Users, ho \in Hidrologicas, hd \in Hidrologicas,
          ao \in Acueductos, ad \in Acueductos, ls \in LineSeqs :
         LET r == solicitar_transferencia(transferencias, lineas, items,
                                          usuario, ho, ao, hd, ad, ls)
         IN /\ transferencias' = r.transferencias
            /\ lineas' = r.lineas
    /\ UNCHANGED <<items, now, reqs, cola, tokens_emitidos, ops>>
    /\ UNCHANGED varsLlamadas

NextDosTransferencias ==
    \/ SolicitarOtraTransferencia
    \/ AprobarLeer
    \/ \E s \in 1..MaxReq : AprobarCommit(s)

SpecDosTransferencias == InitDosTransferencias /\ [][NextDosTransferencias]_vars

\* the transfers in flight that hold item i as a line
EnVueloCon(i) ==
    {t \in Existentes : transferencias[t].estado \in {APROBADA, EN_TRANSITO} /\ i \in ItemsDe(t)}

\* C35: in every reachable state each item is a line of at most one transfer
\* that is Approved or InTransit; requesting and approving another transfer
\* that contains it does not commit it a second time.
C35_ItemEnUnaSolaTransferencia ==
    \A i \in ItemIds : Cardinality(EnVueloCon(i)) <= 1


\* C36: in every reachable state, while a transfer is Approved or InTransit
\* each of its line items is in state InTransit and is owned by the transfer's
\* origin unit; no other operation changes such an item's state or owner
\* before the transfer completes.
C36_ItemsDeTransferenciaEnVuelo ==
    \A t \in Existentes :
       transferencias[t].estado \in {APROBADA, EN_TRANSITO}
       => \A i \in ItemsDe(t) :
             /\ items[i].estado = EN_TRANSITO
             /\ items[i].hidrologica = transferencias[t].hidrologica_origen


\* C37: in every reachable state a transfer carries a token or a signed URL
\* only if it is Approved, InTransit or Completed; no operation mints or
\* re-signs for a transfer that is Requested, Rejected or Cancelled, and
\* re-signing never moves the expiry of a minted token to a later time.
C37_TokenSoloTrasAprobar ==
    /\ [](\A t \in DOMAIN transferencias :
            (transferencias[t].qr_token # SinToken \/ transferencias[t].url_firmada # SinUrl)
            => transferencias[t].estado \in EstadosAprobados)
    /\ [][\A t \in DOMAIN transferencias :
            LET fila == transferencias[t]
                nueva == transferencias'[t]
            IN /\ (nueva.qr_token # fila.qr_token \/ nueva.url_firmada # fila.url_firmada)
                  => fila.estado \in EstadosAprobados
               /\ (/\ fila.qr_token # SinToken
                   /\ nueva.qr_token = fila.qr_token
                   /\ fila.url_firmada # SinUrl
                   /\ nueva.url_firmada # SinUrl)
                  => int_str(nueva.url_firmada.ts) <= int_str(fila.url_firmada.ts)]_vars


\* --------------------------------------- an internal move beside the workflow
\* MovimientoInternoService.crear_movimiento_interno: the load and the guards
MoverLeer ==
    /\ HaySlot
    /\ Len(movimientos) < MaxMovimientos
    /\ \E i \in ItemIds, acueducto_destino \in AcueductosDestino, usuario \in Users :
         /\ UserHidrologica(usuario) = items[i].hidrologica
         /\ AcueductoHidrologica(acueducto_destino) = items[i].hidrologica
         /\ items[i].acueducto_actual # acueducto_destino
         /\ items[i].estado = DISPONIBLE
         /\ reqs' = [reqs EXCEPT ![SlotLibre] =
                       ReqItem("mover", i, usuario, items[i], acueducto_destino)]
    /\ UNCHANGED <<transferencias, lineas, items, now, cola, tokens_emitidos, ops>>
    /\ UNCHANGED varsLlamadas

\* ItemInventario.mover_a_acueducto on the loaded object: acueducto_actual is
\* saved alone, then the history list of the object, with the new event
mover_a_acueducto_en_fila(fila_item, objeto, nuevo_acueducto, usuario) ==
    LET nuevo == mover_a_acueducto(objeto, nuevo_acueducto, usuario)
    IN [fila_item EXCEPT !.acueducto_actual = nuevo.acueducto_actual,
                         !.historial_movimientos = nuevo.historial_movimientos]

\* MovimientoInterno.objects.create: the record, and the item moved by its save
MoverGuardar(s) ==
    LET r == reqs[s] IN
    /\ r.op = "mover"
    /\ items' = [items EXCEPT ![r.item] =
                   mover_a_acueducto_en_fila(@, r.isnap, r.arg, r.usuario)]
    /\ movimientos' = Append(movimientos,
                        [item |-> r.item, acueducto_origen |-> r.isnap.acueducto_actual,
                         acueducto_destino |-> r.arg, usuario |-> r.usuario,
                         motivo |-> "traslado"])
    /\ reqs' = [reqs EXCEPT ![s] = Idle]
    /\ UNCHANGED <<transferencias, lineas, now, cola, tokens_emitidos, ops>>
    /\ UNCHANGED <<firmado, presentado, reloj, veredicto, solicitud, llamada, ordenes, ficha, contexto>>

NextUbicacion ==
    \/ SolicitarTransferencia
    \/ AprobarLeer
    \/ ConfirmarServicioLeer
    \/ MoverLeer
    \/ \E s \in 1..MaxReq :
         \/ AprobarCommit(s)
         \/ IniciarTransitoCommit(s)
         \/ CompletarCommit(s)
         \/ MoverGuardar(s)

SpecUbicacion == Init /\ [][NextUbicacion]_vars

\* C38: in every reachable state each item's current sub-location belongs to
\* the item's current owning unit; internal moves, transfer completion and
\* item updates all preserve this.
C38_AcueductoDeLaHidrologica ==
    \A i \in ItemIds : AcueductoHidrologica(items[i].acueducto_actual) = items[i].hidrologica


OperacionesDeItem == {"cambiar_estado", "mantenimiento"}

\* C39: when two operations append history events to the same item
\* concurrently, each on its own loaded copy, both events are in the stored
\* history once both have committed: the append of an item operation keeps
\* every event stored before it, also one stored after the operation's load,
\* and adds its own.
C39_AmbosEventosQuedan ==
    [][\A s \in 1..MaxReq :
          (Escribe(s) /\ reqs[s].op \in OperacionesDeItem)
          => LET antes == items[reqs[s].item].historial_movimientos
                 despues == items'[reqs[s].item].historial_movimientos
             IN /\ IsPrefix(antes, despues)
                /\ Len(despues) = Len(antes) + 1]_vars


SpecContexto == Init /\ [][NextContexto]_vars

\* C40: a function wrapped by with_tenant_context runs with the given unit and
\* authority flag and, on return or exception, the thread's tenant context is
\* exactly what it was before the call, for every prior context, also one where
\* no unit is set but the authority flag is true.
C40_ContextoRestaurado ==
    contexto.envuelta.op = "with_tenant_context"
    => /\ contexto.envuelta.dentro =
            [hidrologica_id |-> contexto.envuelta.hidrologica_id,
             is_ente_rector |-> contexto.envuelta.is_ente_rector]
       /\ ContextoVisto(contexto.locales[contexto.envuelta.hilo])
            = ContextoVisto(contexto.envuelta.antes)

====
